---- MODULE Spec2Model ----
(***************************************************************************)
(* Token lifecycle of andro-kes/auth_service: TokenService (JWT access     *)
(* tokens, hashed refresh secrets in Redis, Lua rotation script) driven by *)
(* concurrent request tasks.  Every Redis command of a handler is one      *)
(* atomic step; the Go code between two commands is folded into the step   *)
(* of the command that follows it.                                         *)
(***************************************************************************)
EXTENDS Integers, FiniteSets, Sequences, TLC

----------------------------------------------------------------------------
(* Bounds of the model *)

\* events of the environment in one run: a TokenService call begun, a second
\* passing, a fault (of the backend or of crypto/rand) hitting a command
MaxEvents == 4
\* s.refreshTTL and s.accessTTL, in clock ticks (whole seconds)
RefreshTTL == 2
AccessTTL == 1

\* NewTokenService: len(secret) < 32
MinSecretLen == 32

\* request-handling tasks (gRPC handler goroutines)
Procs == {1, 2}
\* user.ID values AuthServer.Login passes to GenerateTokens (uuid strings)
OwnerSeq == <<"u1", "u2">>
Owners == {OwnerSeq[i] : i \in DOMAIN OwnerSeq}
\* the empty owner / empty expected_user_id
NoOwner == ""

\* the empty string as a raw refresh value: the zero return value, and a raw
\* secret no GenerateTokens ever produced
EmptyRaw == 0
\* the secrets randomBase64 hands out, in the order it does
Secrets == 1..MaxEvents
Raws == Secrets \cup {EmptyRaw}

\* the latest clock reading and the latest expiry of the access tokens
\* presented to ValidateAccess
MaxClock == 3

\* secrets tried at construction
SecretLens == {20, MinSecretLen - 1, MinSecretLen}

\* a Redis key without TTL
NoTTL == -1

----------------------------------------------------------------------------
(* Pure helpers *)

\* a digest that is the input itself, readable by whoever reads the store:
\* C11 fails for it
sha256HexPlain(s) == <<"plain", s>>

\* sha256Hex: a one-way digest, modelled as an injective tagging of the input
sha256Hex(s) == <<"sha256", s>>

\* redisKey: "refresh:th:" + hash
redisKey(hash) == <<"refresh:th:", hash>>

KeyOf(raw) == redisKey(sha256Hex(raw))

Keys == {KeyOf(r) : r \in Raws}

\* tokenClaims + jwt.NewWithClaims(HS256).SignedString(secret)
SignAccess(userID, key, accessTTL, t) ==
    [uid |-> userID, typ |-> "access", alg |-> "HS256", key |-> key,
     iat |-> t, nbf |-> t, exp |-> t + accessTTL]

NoTok == [uid |-> "", typ |-> "", alg |-> "", key |-> 0, iat |-> 0, nbf |-> 0, exp |-> 0]

\* parseAndMapErr: jwt.ParseWithClaims with the HS256-only key function
parseAndMapErr(tok, key, t) ==
    IF tok.alg # "HS256" THEN "InvalidToken"
    ELSE IF tok.key # key THEN "InvalidToken"
    ELSE IF t >= tok.exp THEN "TokenExpired"
    ELSE IF t < tok.nbf THEN "InvalidToken"
    ELSE "nil"

\* a ValidateAccess that does not look at the kind of the token: C19 fails
\* for it
ValidateAccessAnyKind(tok, key, t) ==
    LET e == parseAndMapErr(tok, key, t) IN
    IF e # "nil" THEN <<"", e>> ELSE <<tok.uid, "nil">>

\* ValidateAccess: <<userID, err>>
ValidateAccess(tok, key, t) ==
    LET e == parseAndMapErr(tok, key, t) IN
    IF e # "nil" THEN <<"", e>>
    ELSE IF tok.typ # "access" THEN <<"", "InvalidToken">>
    ELSE <<tok.uid, "nil">>

----------------------------------------------------------------------------
(* Redis commands on a keyspace s: a function from the live keys to hashes  *)
(* [user_id, issued_at] with the key's expiry time exp                      *)

RedisExists(s, key) == IF key \in DOMAIN s THEN 1 ELSE 0

RedisHSet(s, key, uid, iat) ==
    IF key \in DOMAIN s
    THEN [s EXCEPT ![key].user_id = uid, ![key].issued_at = iat]
    ELSE (key :> [user_id |-> uid, issued_at |-> iat, exp |-> NoTTL]) @@ s

\* a DEL that removes nothing: C6 fails for it
RedisDelNone(s, key) == s

\* a DEL that takes every record of the key's owner with it: C34 fails for it
RedisDelOwner(s, key) ==
    [k \in {x \in DOMAIN s : x # key /\ (key \in DOMAIN s => s[x].user_id # s[key].user_id)}
        |-> s[k]]

RedisDel(s, key) == [k \in (DOMAIN s) \ {key} |-> s[k]]

\* an EXPIRE that sets no TTL: C9 fails for it
RedisExpireNone(s, key, ttl, t) == s

RedisExpire(s, key, ttl, t) ==
    IF key \notin DOMAIN s THEN s
    ELSE IF ttl <= 0 THEN RedisDel(s, key)
    ELSE [s EXCEPT ![key].exp = t + ttl]

\* keys whose TTL has run out at time t are gone
RedisExpireKeys(s, t) ==
    [k \in {x \in DOMAIN s : s[x].exp = NoTTL \/ s[x].exp > t} |-> s[k]]

\* the script without its EXISTS test (lines 132-134): C1 fails for it
rotateScriptNoCheck(s, oldKey, newKey, argUid, argIat, argTtl, t) ==
    [err |-> "ok",
     store |-> RedisDel(
                 RedisExpire(RedisHSet(s, newKey, argUid, argIat), newKey, argTtl, t),
                 oldKey)]

\* the script without its DEL (line 141): C2 fails for it
rotateScriptNoDel(s, oldKey, newKey, argUid, argIat, argTtl, t) ==
    IF RedisExists(s, oldKey) = 0 THEN [err |-> "old_not_found", store |-> s]
    ELSE [err |-> "ok",
          store |-> RedisExpire(RedisHSet(s, newKey, argUid, argIat), newKey, argTtl, t)]

\* rotateScript, evaluated atomically: [err, store]
rotateScript(s, oldKey, newKey, argUid, argIat, argTtl, t) ==
    IF RedisExists(s, oldKey) = 0 THEN [err |-> "old_not_found", store |-> s]
    ELSE LET uid == s[oldKey].user_id IN
         IF argUid # "" /\ uid # argUid THEN [err |-> "user_mismatch", store |-> s]
         ELSE [err |-> "ok",
               store |-> RedisDel(
                           RedisExpire(RedisHSet(s, newKey, argUid, argIat),
                                       newKey, argTtl, t),
                           oldKey)]

----------------------------------------------------------------------------
(* The SQL builders of internal/repo/db.  SQL text is a sequence of pieces: *)
(* the character '?', a placeholder "$n", or a run of other characters.     *)

\* the character '?'
Q == [s |-> "?", n |-> 0]
\* a run of characters without '?'
T(x) == [s |-> x, n |-> 0]
\* fmt.Sprintf("$%d", k)
Dollar(k) == [s |-> "$", n |-> k]
\* fmt.Sprintf("%d", k)
Num(k) == [s |-> "%d", n |-> k]

\* strings.Join(elems, sep)
RECURSIVE Join(_, _)
Join(elems, sep) ==
    IF elems = <<>> THEN <<>>
    ELSE IF Len(elems) = 1 THEN elems[1]
    ELSE elems[1] \o <<T(sep)>> \o Join(Tail(elems), sep)

\* strings.Contains(fragment, "?")
ContainsQ(fragment) == \E i \in DOMAIN fragment : fragment[i] = Q

\* baseBuilder.addArgs
addArgs(b, values) ==
    IF Len(values) = 0 THEN b
    ELSE [b EXCEPT !.args = @ \o values, !.argCount = @ + Len(values)]

\* the loop of replaceQuestionPlaceholders from piece i on: every '?' takes
\* the next number of b.argCount; [b, out, argIdx, err]
RECURSIVE ReplaceLoop(_, _, _, _, _, _)
ReplaceLoop(b, fragment, nargs, i, argIdx, out) ==
    IF i > Len(fragment)
    THEN [b |-> b, out |-> out, argIdx |-> argIdx, err |-> "nil"]
    ELSE IF fragment[i] = Q
    THEN IF argIdx >= nargs
         THEN [b |-> b, out |-> <<>>, argIdx |-> argIdx,
               err |-> "not enough arguments for placeholders"]
         ELSE ReplaceLoop([b EXCEPT !.argCount = @ + 1], fragment, nargs, i + 1,
                          argIdx + 1, Append(out, Dollar(b.argCount + 1)))
    ELSE ReplaceLoop(b, fragment, nargs, i + 1, argIdx, Append(out, fragment[i]))

\* baseBuilder.replaceQuestionPlaceholders: [b, out, err], b the builder as
\* the call leaves it
replaceQuestionPlaceholders(b, fragment, args) ==
    IF Len(args) = 0 /\ ~ContainsQ(fragment)
    THEN [b |-> b, out |-> fragment, err |-> "nil"]
    ELSE LET r == ReplaceLoop(b, fragment, Len(args), 1, 0, <<>>)
         IN IF r.err # "nil" THEN [b |-> r.b, out |-> <<>>, err |-> r.err]
            ELSE IF r.argIdx # Len(args)
            THEN [b |-> r.b, out |-> <<>>, err |-> "too many args for fragment"]
            ELSE [b |-> addArgs(r.b, args), out |-> r.out, err |-> "nil"]

\* a nil *int, and a pointer to n
NilInt == <<>>
PtrInt(n) == <<n>>

NewSelectBuilder ==
    [args |-> <<>>, argCount |-> 0, columns |-> <<>>, from |-> "", joins |-> <<>>,
     wheres |-> <<>>, groupBy |-> <<>>, orderBy |-> <<>>, limit |-> NilInt,
     offset |-> NilInt, distinct |-> FALSE]

NewInsertBuilder ==
    [args |-> <<>>, argCount |-> 0, table |-> "", columns |-> <<>>, values |-> <<>>,
     returning |-> <<>>]

NewUpdateBuilder ==
    [args |-> <<>>, argCount |-> 0, table |-> "", sets |-> <<>>, wheres |-> <<>>,
     returning |-> <<>>]

NewDeleteBuilder ==
    [args |-> <<>>, argCount |-> 0, table |-> "", wheres |-> <<>>, returning |-> <<>>]

\* Where of the Select, Update and Delete builders, Set of the Update
\* builder: [b, panic]
WhereOn(b, cond, args) ==
    LET r == replaceQuestionPlaceholders(b, cond, args)
    IN IF r.err # "nil" THEN [b |-> r.b, panic |-> r.err]
       ELSE [b |-> [r.b EXCEPT !.wheres = Append(@, r.out)], panic |-> "nil"]

UpdateSet(u, col, value) ==
    LET r == replaceQuestionPlaceholders(u, <<Q>>, <<value>>)
    IN IF r.err # "nil" THEN [b |-> r.b, panic |-> r.err]
       ELSE [b |-> [r.b EXCEPT !.sets = Append(@, <<T(col), T(" = ")>> \o r.out)],
             panic |-> "nil"]

\* the columns as pieces of text
Cols(columns) == [i \in DOMAIN columns |-> <<T(columns[i])>>]

\* SelectBuilder.Build: [b, sql, args, err]
SelectBuild(s) ==
    LET s1 == IF Len(s.columns) = 0 THEN [s EXCEPT !.columns = <<"*">>] ELSE s
    IN [b |-> s1,
        sql |-> <<T("SELECT ")>>
                \o (IF s1.distinct THEN <<T("DISTINCT ")>> ELSE <<>>)
                \o Join(Cols(s1.columns), ", ")
                \o (IF s1.from # "" THEN <<T(" FROM "), T(s1.from)>> ELSE <<>>)
                \o (IF Len(s1.joins) > 0 THEN <<T(" ")>> \o Join(Cols(s1.joins), " ")
                    ELSE <<>>)
                \o (IF Len(s1.wheres) > 0
                    THEN <<T(" WHERE ")>> \o Join(s1.wheres, " AND ") ELSE <<>>)
                \o (IF Len(s1.groupBy) > 0
                    THEN <<T(" GROUP BY ")>> \o Join(Cols(s1.groupBy), ", ") ELSE <<>>)
                \o (IF Len(s1.orderBy) > 0
                    THEN <<T(" ORDER BY ")>> \o Join(Cols(s1.orderBy), ", ") ELSE <<>>)
                \o (IF s1.limit # NilInt THEN <<T(" LIMIT "), Num(s1.limit[1])>> ELSE <<>>)
                \o (IF s1.offset # NilInt THEN <<T(" OFFSET "), Num(s1.offset[1])>> ELSE <<>>),
        args |-> s1.args,
        err |-> "nil"]

\* the rows loop of InsertBuilder.Build from row k on: [b, frags, err]
RECURSIVE InsertRows(_, _, _)
InsertRows(b, k, frags) ==
    IF k > Len(b.values) THEN [b |-> b, frags |-> frags, err |-> "nil"]
    ELSE LET row == b.values[k]
             n == Len(row)
             frag == <<T("(")>>
                     \o Join([j \in 1..n |-> <<Dollar(b.argCount + j)>>], ", ")
                     \o <<T(")")>>
         IN IF n # Len(b.columns)
            THEN [b |-> b, frags |-> frags,
                  err |-> "insert: values count does not match columns count"]
            ELSE InsertRows(addArgs([b EXCEPT !.argCount = @ + n], row), k + 1,
                            Append(frags, frag))

\* InsertBuilder.Build: [b, sql, args, err]
InsertBuild(i) ==
    IF i.table = ""
    THEN [b |-> i, sql |-> <<>>, args |-> <<>>, err |-> "insert: missing table"]
    ELSE IF Len(i.columns) = 0
    THEN [b |-> i, sql |-> <<>>, args |-> <<>>, err |-> "insert: missing columns"]
    ELSE IF Len(i.values) = 0
    THEN [b |-> i, sql |-> <<>>, args |-> <<>>, err |-> "insert: missing values"]
    ELSE LET r == InsertRows(i, 1, <<>>)
         IN IF r.err # "nil"
            THEN [b |-> r.b, sql |-> <<>>, args |-> <<>>, err |-> r.err]
            ELSE [b |-> r.b,
                  sql |-> <<T("INSERT INTO "), T(i.table), T(" (")>>
                          \o Join(Cols(i.columns), ", ")
                          \o <<T(") VALUES ")>>
                          \o Join(r.frags, ", ")
                          \o (IF Len(i.returning) > 0
                              THEN <<T(" RETURNING ")>> \o Join(Cols(i.returning), ", ")
                              ELSE <<>>),
                  args |-> r.b.args,
                  err |-> "nil"]

\* UpdateBuilder.Build: [b, sql, args, err]
UpdateBuild(u) ==
    IF u.table = ""
    THEN [b |-> u, sql |-> <<>>, args |-> <<>>, err |-> "update: missing table"]
    ELSE IF Len(u.sets) = 0
    THEN [b |-> u, sql |-> <<>>, args |-> <<>>, err |-> "update: no sets provided"]
    ELSE [b |-> u,
          sql |-> <<T("UPDATE "), T(u.table), T(" SET ")>>
                  \o Join(u.sets, ", ")
                  \o (IF Len(u.wheres) > 0
                      THEN <<T(" WHERE ")>> \o Join(u.wheres, " AND ") ELSE <<>>)
                  \o (IF Len(u.returning) > 0
                      THEN <<T(" RETURNING ")>> \o Join(Cols(u.returning), ", ")
                      ELSE <<>>),
          args |-> u.args,
          err |-> "nil"]

\* DeleteBuilder.Build: [b, sql, args, err]
DeleteBuild(d) ==
    IF d.table = ""
    THEN [b |-> d, sql |-> <<>>, args |-> <<>>, err |-> "delete: missing table"]
    ELSE [b |-> d,
          sql |-> <<T("DELETE FROM "), T(d.table)>>
                  \o (IF Len(d.wheres) > 0
                      THEN <<T(" WHERE ")>> \o Join(d.wheres, " AND ") ELSE <<>>)
                  \o (IF Len(d.returning) > 0
                      THEN <<T(" RETURNING ")>> \o Join(Cols(d.returning), ", ")
                      ELSE <<>>),
          args |-> d.args,
          err |-> "nil"]

\* the methods that only store or append their arguments
SelectCols(s, cols) == [s EXCEPT !.columns = @ \o cols]
SelectFrom(s, table) == [s EXCEPT !.from = table]
SelectLimit(s, n) == [s EXCEPT !.limit = PtrInt(n)]
InsertInto(i, table) == [i EXCEPT !.table = table]
InsertColumns(i, cols) == [i EXCEPT !.columns = @ \o cols]
InsertValues(i, vals) == [i EXCEPT !.values = Append(@, vals)]
UpdateTable(u, table) == [u EXCEPT !.table = table]
DeleteFrom(d, table) == [d EXCEPT !.table = table]

\* NewUserRepo: one builder of each kind, made once
NewUserRepo ==
    [SelectBuilder |-> NewSelectBuilder, UpdateBuilder |-> NewUpdateBuilder,
     InsertBuilder |-> NewInsertBuilder, DeleteBuilder |-> NewDeleteBuilder]

----------------------------------------------------------------------------
(* autherr: an error is its message and its gRPC code; class names the      *)
(* predefined error it is, or was copied from by WithMessage.  An error     *)
(* that is no AuthError (a pgx or transaction error) has class "error" and  *)
(* reaches a client as codes.Unknown with its text.                         *)

New(class, message, code) == [class |-> class, msg |-> message, code |-> code]

\* a nil error
NilErr == New("nil", "", "OK")

ErrCreateUser == New("ErrCreateUser", "failed to create user", "Internal")
ErrLoginUser == New("ErrLoginUser", "invalid credentials", "Unauthenticated")
ErrInvalidToken == New("ErrInvalidToken", "invalid token", "Unauthenticated")
ErrTokenExpired == New("ErrTokenExpired", "token expired", "Unauthenticated")
ErrNoToken == New("ErrNoToken", "no token provided", "Unauthenticated")
ErrForbidden == New("ErrForbidden", "forbidden", "PermissionDenied")
ErrNotFound == New("ErrNotFound", "not found", "NotFound")
ErrBadRequest == New("ErrBadRequest", "bad request", "InvalidArgument")
ErrHashPassword == New("ErrHashPassword", "failed to hash password", "Internal")
\* the storage and generation errors: internal, with a fixed message
ErrStorageError == New("ErrStorageError", "storage error", "Internal")
ErrStorage == New("ErrStorage", "storage error", "Internal")
ErrTokenGeneration == New("ErrTokenGeneration", "token generation failed", "Internal")

\* AuthError.WithMessage: a copy with the message replaced, the code kept
WithMessage(e, msg) == [e EXCEPT !.msg = msg]

\* an error of another package, by its text
RawError(text) == New("error", text, "Unknown")

\* the predefined errors, and the messages a client may be shown
Predefined ==
    {ErrCreateUser, ErrLoginUser, ErrInvalidToken, ErrTokenExpired, ErrNoToken,
     ErrForbidden, ErrNotFound, ErrBadRequest, ErrHashPassword, ErrStorageError,
     ErrStorage, ErrTokenGeneration}
FixedMessages == {e.msg : e \in Predefined}

\* the codes of a fault of the service, and the codes that blame the request
InternalCodes == {"Internal"}
ClientCodes == {"InvalidArgument", "Unauthenticated", "PermissionDenied", "NotFound"}

\* the error a TokenService call returned: err names its class, text is
\* err.Error() of the fault behind it
TokenError(err, text) ==
    IF err = "nil" THEN NilErr
    ELSE IF err = "InvalidToken" THEN ErrInvalidToken
    ELSE IF err = "TokenExpired" THEN ErrTokenExpired
    ELSE IF err = "BadRequest" THEN ErrBadRequest
    ELSE IF err = "StorageError" THEN WithMessage(ErrStorageError, text)
    ELSE IF err = "ErrStorage" THEN WithMessage(ErrStorage, text)
    ELSE WithMessage(ErrTokenGeneration, text)

----------------------------------------------------------------------------
(* bcrypt and Postgres as the UserService sees them *)

\* a models.User with the zero values, a nil *models.User
NoUser == [id |-> "", username |-> "", password |-> ""]

\* bcrypt.GenerateFromPassword: the hash of a password, never the password
Hash(password) ==
    IF password = "pw1" THEN "$2a$12$h1" ELSE IF password = "pw2" THEN "$2a$12$h2"
    ELSE "$2a$12$h0"

\* bcrypt.CompareHashAndPassword(hash, password) = nil
CompareHashAndPassword(hash, password) == hash = Hash(password)

\* the numbers of the placeholders in the where fragments ws
Params(ws) ==
    UNION {{ws[i][j].n : j \in {j \in DOMAIN ws[i] : ws[i][j].s = "$"}} : i \in DOMAIN ws}

\* the rows of table that satisfy every fragment "username = $n" of ws
Matching(table, ws, args) ==
    {r \in table : \A n \in Params(ws) : r.username = args[n]}

\* pool.QueryRow(ctx, sql, args...) and row.Scan(&ID, &Username, &Password)
\* for the SELECT built from columns cols and fragments ws: [user, err]
\* d: the connection works ("ok") or not ("err")
QueryRowScan(table, cols, ws, args, d) ==
    IF d # "ok"
    THEN [user |-> NoUser,
          err |-> RawError("failed to connect: connection refused")]
    ELSE IF Params(ws) # 1..Len(args)
    THEN [user |-> NoUser,
          err |-> RawError("wrong number of query arguments")]
    ELSE IF Matching(table, ws, args) = {}
    THEN [user |-> NoUser,
          err |-> RawError("no rows in result set")]
    ELSE IF Len(cols) # 3
    THEN [user |-> NoUser,
          err |-> RawError("number of field descriptions must equal number of destinations")]
    ELSE LET r == CHOOSE r \in Matching(table, ws, args) : TRUE
         IN [user |-> [id |-> r[cols[1]], username |-> r[cols[2]],
                       password |-> r[cols[3]]],
             err |-> NilErr]

\* q.Exec(ctx, sql, args...) for the INSERT built from columns cols and
\* the rows rows, numbered by frags: [table, err]
ExecInsert(table, cols, frags, args, d) ==
    IF d # "ok"
    THEN [table |-> table, err |-> RawError("failed to connect: connection refused")]
    ELSE IF Params(frags) # 1..Len(args)
    THEN [table |-> table, err |-> RawError("wrong number of query arguments")]
    ELSE IF Len(cols) # 3
    THEN [table |-> table, err |-> RawError("column specified more than once")]
    ELSE LET val(k, c) ==
                 LET j == CHOOSE j \in 1..3 : cols[j] = c
                     ns == [i \in 1..3 |-> frags[k][2 * i].n]
                 IN args[ns[j]]
             rows == {[id |-> val(k, "id"), username |-> val(k, "username"),
                       password |-> val(k, "password")] : k \in DOMAIN frags}
             ids == {r.id : r \in table} \cup {r.id : r \in rows}
             names == {r.username : r \in table} \cup {r.username : r \in rows}
         IN IF Cardinality(ids) < Cardinality(table) + Len(frags)
               \/ Cardinality(names) < Cardinality(table) + Len(frags)
            THEN [table |-> table,
                  err |-> RawError("duplicate key value violates unique constraint")]
            ELSE [table |-> table \cup rows,
                  err |-> NilErr]

----------------------------------------------------------------------------
VARIABLES
    svc,       \* NewTokenService: [state, len, secret, accessTTL, refreshTTL,
               \* err, pings]: the length of the secret it was given, the
               \* service's fields secret (its length stands for it; 0: no
               \* service), accessTTL and refreshTTL, the error, the PINGs sent
    now,       \* the clock, in ticks
    store,     \* the Redis keyspace
    nextRaw,   \* the next secret randomBase64 returns
    events,    \* events of the environment so far
    call,      \* per task: the TokenService call it is in, its locals and result
    issued     \* history: raw secrets returned to a caller ->
               \* [owner, at, from, access, fate]: who it was issued to, when,
               \* by a rotation of which secret (EmptyRaw: by a login), with
               \* which access token, and what became of it: the rotation
               \* script consumed it and the new pair was returned ("rotated")
               \* or the script's reply was lost ("orphaned"), Redis ran a DEL
               \* of RevokeRefreshByRaw on it ("revoked"); "live" otherwise
VARIABLES
    users,     \* the rows of the Postgres table users: [id, username, password]
    repo,      \* the userRepo of the UserService: its four builders
               \* [SelectBuilder, UpdateBuilder, InsertBuilder, DeleteBuilder]
    rpc        \* per task: the locals of the UserService call or builder
               \* call it is in, and what the call returned

\* what no TokenService method touches
userSide == <<users, repo, rpc>>

vars == <<svc, now, store, nextRaw, events, call, issued, users, repo, rpc>>

\* the function with no keys
EmptyMap == [k \in {} |-> 0]

\* the zero return values: "", "", time.Time{}, time.Time{}
NoOut == [user |-> NoOwner, access |-> NoTok, refresh |-> EmptyRaw]

\* a task that is in no call.  op, pc: the call and the next command to send;
\* raw, expected: the arguments; userID, newRaw, access, t0: the locals
\* userID, rawRefresh, signedAccess, now; err, out: the returned error and
\* values.  History of the call: tags (what held of raw when it began), cmds
\* (the commands it sent), sent and evals (how many commands, and how many
\* EVALs among them), changed (a step of it changed the keyspace), faulted
\* (a command of it hit a backend or entropy fault), text (err.Error() of
\* the fault it hit last).
Idle ==
    [op |-> "idle", pc |-> "idle", raw |-> EmptyRaw, expected |-> NoOwner,
     userID |-> NoOwner, newRaw |-> EmptyRaw, access |-> NoTok, t0 |-> 0,
     err |-> "nil", out |-> NoOut,
     tags |-> {}, cmds |-> {}, sent |-> 0, evals |-> 0,
     changed |-> FALSE, faulted |-> FALSE, text |-> ""]

\* what a task holds of the shared builder between two accesses: the
\* slices it read (cols, args, wh, rows), the counter it read (n), the
\* fragments it wrote so far (frag, frags), the row and value it is at (k, j)
NoReg ==
    [cols |-> <<>>, args |-> <<>>, wh |-> <<>>, rows |-> <<>>, n |-> 0,
     frag |-> <<>>, frags |-> <<>>, k |-> 0, j |-> 0]

\* a task in no UserService call.  username, password: the arguments; reg:
\* what the task has read of the shared builder; user, err: the results;
\* sql, args: the statement it sent to Postgres; id: the user id Register
\* returned; tx, create: whether RunInTx and Repo.Create were entered and
\* how they ended.
IdleRPC ==
    [op |-> "idle", pc |-> "idle", username |-> "", password |-> "",
     reg |-> NoReg, user |-> NoUser, err |-> NilErr, sql |-> <<>>, args |-> <<>>,
     id |-> "", tx |-> "none", create |-> "none"]

\* the user side before any request: no rows, the builders as NewUserRepo
\* made them
InitUserSide ==
    /\ users = {}
    /\ repo = NewUserRepo
    /\ rpc = [p \in Procs |-> IdleRPC]

Init ==
    /\ svc = [state |-> "new", len |-> 0, secret |-> 0, accessTTL |-> 0,
              refreshTTL |-> 0, err |-> "nil", pings |-> 0]
    /\ now = 0
    /\ store = EmptyMap
    /\ nextRaw = 1
    /\ events = 0
    /\ call = [p \in Procs |-> Idle]
    /\ issued = EmptyMap
    /\ InitUserSide

----------------------------------------------------------------------------
(* Faults: a command either runs and answers ("ok"), fails before Redis ran *)
(* it ("err"), or runs but its reply is lost to a timeout, a dropped         *)
(* connection or a cancelled context ("lost"): go-redis reports an error in  *)
(* both of the last two.                                                     *)

WriteOutcomes == {"ok", "err", "lost"}
ReadOutcomes == {"ok", "err"}
\* crypto/rand.Read and SignedString: all succeed ("ok"), randomHex or
\* SignedString fails ("fail"), randomBase64 fails after the access token
\* was signed ("norand")
GenOutcomes == {"ok", "fail", "norand"}

Applied(o) == o \in {"ok", "lost"}

\* a step that begins `begun` calls and whose command has outcome o
Spend(begun, o) ==
    LET n == begun + (IF o = "ok" THEN 0 ELSE 1)
    IN /\ events + n <= MaxEvents
       /\ events' = events + n

\* raw values a client can send: the secrets it was handed, or one never issued
Known == (DOMAIN issued) \cup {EmptyRaw}

\* what holds of raw when a call on it begins
StartTags(raw) ==
    (IF KeyOf(raw) \in DOMAIN store THEN {"present"} ELSE {"absent"})
    \cup (IF raw \in DOMAIN issued /\ issued[raw].fate # "live"
          THEN {issued[raw].fate} ELSE {})
    \cup (IF raw \in DOMAIN issued /\ now >= issued[raw].at + RefreshTTL
          THEN {"stale"} ELSE {})

\* Tasks are interchangeable: a request is given to the first free task.
Free(p) ==
    /\ call[p].op = "idle"
    /\ \A q \in Procs : q < p => call[q].op # "idle"

\* Owners are interchangeable: a login of an owner not yet seen anywhere in
\* the state (keyspace, history, calls in flight) is a login of the first such.
Seen(u) ==
    \/ \E k \in DOMAIN store : store[k].user_id = u
    \/ \E r \in DOMAIN issued : issued[r].owner = u
    \/ \E p \in Procs : call[p].userID = u

NextOwner(u) ==
    \E i \in DOMAIN OwnerSeq :
        /\ u = OwnerSeq[i]
        /\ \A j \in 1..(i - 1) : Seen(OwnerSeq[j])

\* an error return that hands back the access token signed so far: C18 fails
\* for it
FailKeeping(c, e) ==
    [c EXCEPT !.pc = "done", !.err = e, !.out = [NoOut EXCEPT !.access = c.access]]

\* the call c ends with error e and the zero values
Fail(c, e) == [c EXCEPT !.pc = "done", !.err = e, !.out = NoOut]

\* err.Error() of the error go-redis returns for a command with outcome o
RedisErrText(o) ==
    IF o = "err" THEN "dial tcp: connect: connection refused" ELSE "i/o timeout"

\* err.Error() of a failed SignedString or crypto/rand.Read
GenErrText(g) ==
    IF g = "fail" THEN "key is invalid" ELSE "unexpected EOF"

\* the call c sent command cmd with outcome o, leaving the keyspace as put
Sent(c, cmd, o, put) ==
    [c EXCEPT !.cmds = @ \cup {cmd},
              !.sent = @ + 1,
              !.evals = @ + (IF cmd = "EVAL" THEN 1 ELSE 0),
              !.changed = @ \/ put # store,
              !.faulted = @ \/ o # "ok",
              !.text = IF o = "ok" THEN @ ELSE RedisErrText(o)]

\* the history entry of a secret handed to a caller
Handed(owner, from, access) ==
    [owner |-> owner, at |-> now, from |-> from, access |-> access, fate |-> "live"]

\* the history after raw met its fate f (the first fate is kept)
Fate(h, raw, f) ==
    IF raw \in DOMAIN h /\ h[raw].fate = "live" THEN [h EXCEPT ![raw].fate = f] ELSE h

----------------------------------------------------------------------------
(* NewTokenService *)

\* a length test off by one: C10 fails for it
SecretTooShortOffByOne(len) == len < MinSecretLen - 1

SecretTooShort(len) == len < MinSecretLen

NewTokenService(len, ping) ==
    /\ svc.state = "new"
    /\ svc' = IF SecretTooShort(len)
              THEN [state |-> "failed", len |-> len, secret |-> 0, accessTTL |-> 0,
                    refreshTTL |-> 0, err |-> "BadRequest", pings |-> 0]
              ELSE IF ping = "ok"
              THEN [state |-> "ready", len |-> len, secret |-> len,
                    accessTTL |-> AccessTTL, refreshTTL |-> RefreshTTL,
                    err |-> "nil", pings |-> 1]
              ELSE [state |-> "failed", len |-> len, secret |-> 0, accessTTL |-> 0,
                    refreshTTL |-> 0, err |-> "StorageError", pings |-> 1]
    /\ UNCHANGED <<now, store, nextRaw, events, call, issued, userSide>>

----------------------------------------------------------------------------
(* GenerateTokens: called by AuthServer.Login (op "Issue") and from inside  *)
(* RotateRefresh (op "Rotate")                                               *)

\* lines 57-92: jti, sign the access token, draw the raw refresh secret
\* (rawRefresh is what randomBase64 returned), HSET.
\* c is the call of task p as it enters GenerateTokens for userID.
GenerateTokensPut(p, c, userID, rawRefresh, g, o) ==
    LET signed == [c EXCEPT !.t0 = now, !.access = SignAccess(userID, svc.secret, svc.accessTTL, now)]
    IN IF g = "fail"
       THEN /\ call' = [call EXCEPT ![p] =
                           [Fail(c, "TokenGeneration") EXCEPT !.faulted = TRUE,
                                                             !.text = GenErrText(g)]]
            /\ UNCHANGED store
       ELSE IF g = "norand"
       THEN /\ call' = [call EXCEPT ![p] =
                           [Fail(signed, "TokenGeneration") EXCEPT !.faulted = TRUE,
                                                                  !.text = GenErrText(g)]]
            /\ UNCHANGED store
       ELSE LET key == redisKey(sha256Hex(rawRefresh))
                put == IF Applied(o) THEN RedisHSet(store, key, userID, now) ELSE store
                c1 == [Sent(signed, "HSET", o, put) EXCEPT !.newRaw = rawRefresh]
            IN /\ store' = put
               /\ call' = [call EXCEPT ![p] =
                              IF o = "ok" THEN [c1 EXCEPT !.pc = "expire"]
                              ELSE Fail(c1, "StorageError")]

\* randomBase64 hands out the next secret of Secrets, distinct from all
\* before it, when the generation gets that far
FreshRaw(g) ==
    IF g = "ok"
    THEN /\ nextRaw \in Secrets
         /\ nextRaw' = nextRaw + 1
    ELSE UNCHANGED nextRaw

\* lines 93-97: EXPIRE, then return the four values
GenerateTokensExpire(p, o) ==
    /\ call[p].pc = "expire"
    /\ o \in WriteOutcomes
    /\ LET c == call[p]
           key == redisKey(sha256Hex(c.newRaw))
           put == IF Applied(o) THEN RedisExpire(store, key, svc.refreshTTL, now) ELSE store
           c1 == Sent(c, "EXPIRE", o, put)
       IN /\ store' = put
          /\ IF o # "ok"
             THEN /\ call' = [call EXCEPT ![p] = Fail(c1, "StorageError")]
                  /\ UNCHANGED issued
             ELSE IF c.op = "Issue"
             THEN /\ call' = [call EXCEPT ![p] =
                                 [c1 EXCEPT !.pc = "done", !.err = "nil",
                                            !.out = [user |-> NoOwner, access |-> c.access,
                                                     refresh |-> c.newRaw]]]
                  /\ issued' = (c.newRaw :> Handed(c.userID, EmptyRaw, c.access)) @@ issued
             ELSE /\ call' = [call EXCEPT ![p] = [c1 EXCEPT !.pc = "eval"]]
                  /\ UNCHANGED issued
    /\ Spend(0, o)
    /\ UNCHANGED <<svc, now, nextRaw, userSide>>

\* AuthServer.Login -> GenerateTokens(ctx, user.ID)
IssueStart(p, userID, g, o) ==
    /\ svc.state = "ready"
    /\ Free(p)
    /\ g \in GenOutcomes
    /\ o \in (IF g = "ok" THEN WriteOutcomes ELSE {"ok"})
    /\ GenerateTokensPut(p, [Idle EXCEPT !.op = "Issue", !.userID = userID],
                         userID, nextRaw, g, o)
    /\ FreshRaw(g)
    /\ Spend(1, IF g = "ok" THEN o ELSE g)
    /\ UNCHANGED <<svc, now, issued, userSide>>

----------------------------------------------------------------------------
(* ValidateRefresh: called on its own (op "Validate") and as the first two  *)
(* commands of RotateRefresh                                                 *)

\* ValidateRefresh going on to HGET whatever EXISTS answered: C8 fails for it
ExistsErrLenient(o, exists) == IF o # "ok" THEN "StorageError" ELSE "nil"

\* lines 114-120: the error after EXISTS, "nil" to go on
ExistsErr(o, exists) ==
    IF o # "ok" THEN "StorageError"
    ELSE IF exists = 0 THEN "InvalidToken"
    ELSE "nil"

\* an HGET whose redis.Nil is taken for a backend error and whose empty
\* owner is handed on: C32 fails for it
ValidateRefreshHGetStrict(s, key, o) ==
    IF o # "ok" \/ key \notin DOMAIN s THEN <<"", "StorageError">>
    ELSE <<s[key].user_id, "nil">>

\* lines 121-128: HGET user_id; on a fault Result() gives "" with the error,
\* and the test userID == "" comes first.  <<userID, err>>
ValidateRefreshHGet(s, key, o) ==
    LET userID == IF o = "ok" /\ key \in DOMAIN s THEN s[key].user_id ELSE ""
        redisNil == o = "ok" /\ key \notin DOMAIN s
    IN IF redisNil \/ userID = "" THEN <<"", "InvalidToken">>
       ELSE IF o # "ok" THEN <<"", "StorageError">>
       ELSE <<userID, "nil">>

\* ValidateRefresh run against keyspace s with no fault and no step of another
\* task between its two commands: <<userID, err>>
ValidateRefresh(s, rawRefresh) ==
    LET key == redisKey(sha256Hex(rawRefresh))
        e == ExistsErr("ok", RedisExists(s, key))
    IN IF e # "nil" THEN <<"", e>> ELSE ValidateRefreshHGet(s, key, "ok")

\* lines 112-120: EXISTS, as the first command of the call c of task p
ValidateRefreshExists(p, c, o) ==
    /\ o \in ReadOutcomes
    /\ LET key == redisKey(sha256Hex(c.raw))
           e == ExistsErr(o, RedisExists(store, key))
           c1 == [Sent(c, "EXISTS", o, store) EXCEPT !.tags = StartTags(c.raw)]
       IN call' = [call EXCEPT ![p] =
                     IF e # "nil" THEN Fail(c1, e) ELSE [c1 EXCEPT !.pc = "hget"]]
    /\ Spend(1, o)

ValidateStart(p, raw, o) ==
    /\ svc.state = "ready"
    /\ Free(p)
    /\ raw \in Known
    /\ ValidateRefreshExists(p, [Idle EXCEPT !.op = "Validate", !.raw = raw], o)
    /\ UNCHANGED <<svc, now, store, nextRaw, issued, userSide>>

ValidateHGet(p, o) ==
    /\ call[p].op = "Validate"
    /\ call[p].pc = "hget"
    /\ o \in ReadOutcomes
    /\ LET c == call[p]
           r == ValidateRefreshHGet(store, redisKey(sha256Hex(c.raw)), o)
           c1 == Sent(c, "HGET", o, store)
       IN call' = [call EXCEPT ![p] =
                     IF r[2] # "nil" THEN Fail(c1, r[2])
                     ELSE [c1 EXCEPT !.pc = "done", !.err = "nil", !.userID = r[1],
                                     !.out = [NoOut EXCEPT !.user = r[1]]]]
    /\ Spend(0, o)
    /\ UNCHANGED <<svc, now, store, nextRaw, issued, userSide>>

----------------------------------------------------------------------------
(* RotateRefresh *)

\* RotateRefresh without the owner pre-check: C3 fails for it
OwnerMismatchNever(expectedUserID, userID) == FALSE

\* the script given the caller's expected owner instead of the validated one:
\* C5 fails for it
RotateArgsExpected(c) == <<c.expected, c.t0, svc.refreshTTL>>

\* line 150: the owner pre-check
OwnerMismatch(expectedUserID, userID) ==
    expectedUserID # "" /\ userID # expectedUserID

\* line 167: ARGV of the script: userID, issuedAt, ttl
RotateArgs(c) == <<c.userID, c.t0, svc.refreshTTL>>

\* line 146, first command of ValidateRefresh
RotateStart(p, raw, expectedUserID, o) ==
    /\ svc.state = "ready"
    /\ Free(p)
    /\ raw \in Known
    /\ ValidateRefreshExists(p, [Idle EXCEPT !.op = "Rotate", !.raw = raw,
                                           !.expected = expectedUserID], o)
    /\ UNCHANGED <<svc, now, store, nextRaw, issued, userSide>>

\* lines 146-152: second command of ValidateRefresh, then the owner pre-check
RotateHGet(p, o) ==
    /\ call[p].op = "Rotate"
    /\ call[p].pc = "hget"
    /\ o \in ReadOutcomes
    /\ LET c == call[p]
           r == ValidateRefreshHGet(store, redisKey(sha256Hex(c.raw)), o)
           c1 == [Sent(c, "HGET", o, store) EXCEPT !.userID = r[1]]
       IN call' = [call EXCEPT ![p] =
                     IF r[2] # "nil" THEN Fail(c1, r[2])
                     ELSE IF OwnerMismatch(c.expected, r[1]) THEN Fail(c1, "InvalidToken")
                     ELSE [c1 EXCEPT !.pc = "gen"]]
    /\ Spend(0, o)
    /\ UNCHANGED <<svc, now, store, nextRaw, issued, userSide>>

\* lines 154-158: now, GenerateTokens(ctx, userID) up to its HSET
RotateGenerate(p, g, o) ==
    /\ call[p].op = "Rotate"
    /\ call[p].pc = "gen"
    /\ g \in GenOutcomes
    /\ o \in (IF g = "ok" THEN WriteOutcomes ELSE {"ok"})
    /\ GenerateTokensPut(p, call[p], call[p].userID, nextRaw, g, o)
    /\ FreshRaw(g)
    /\ Spend(0, IF g = "ok" THEN o ELSE g)
    /\ UNCHANGED <<svc, now, issued, userSide>>

\* an error mapping that tells a lost race from a wrong owner: C12 fails for it
EvalErrTelling(o, scriptErr) ==
    IF o # "ok" THEN "StorageError"
    ELSE IF scriptErr = "old_not_found" THEN "NotFound"
    ELSE IF scriptErr = "user_mismatch" THEN "InvalidToken"
    ELSE "nil"

\* lines 168-178: the error RotateRefresh returns for the reply to EVAL (o:
\* the command's outcome, scriptErr: what the script answered); "nil": none
EvalErr(o, scriptErr) ==
    IF o # "ok" THEN "StorageError"
    ELSE IF scriptErr = "old_not_found" THEN "InvalidToken"
    ELSE IF scriptErr = "user_mismatch" THEN "InvalidToken"
    ELSE "nil"

\* a call that sends its EVAL again when the script answers old_not_found:
\* C20 fails for it
AfterEvalRetrying(o, scriptErr) ==
    IF o = "ok" /\ scriptErr = "old_not_found" THEN "eval"
    ELSE IF o # "ok" \/ scriptErr # "ok" THEN "cleanup" ELSE "done"

\* a call that skips the rollback DEL and returns at once: C31 fails for it
AfterEvalNoRollback(o, scriptErr) == "done"

\* lines 168-181: where RotateRefresh goes after EVAL: the rollback DEL when
\* cmd.Err() != nil, the return otherwise
AfterEval(o, scriptErr) ==
    IF o # "ok" \/ scriptErr # "ok" THEN "cleanup" ELSE "done"

\* lines 160-181: EVAL rotateScript; on success return the new pair
RotateEval(p, o) ==
    /\ call[p].op = "Rotate"
    /\ call[p].pc = "eval"
    /\ o \in WriteOutcomes
    /\ LET c == call[p]
           oldKey == redisKey(sha256Hex(c.raw))
           newKey == redisKey(sha256Hex(c.newRaw))
           argv == RotateArgs(c)
           r == rotateScript(store, oldKey, newKey, argv[1], argv[2], argv[3], now)
           put == IF Applied(o) THEN r.store ELSE store
           c1 == Sent(c, "EVAL", o, put)
       IN /\ store' = put
          /\ IF AfterEval(o, r.err) = "done"
             THEN /\ call' = [call EXCEPT ![p] =
                                 [c1 EXCEPT !.pc = "done", !.err = EvalErr(o, r.err),
                                            !.out = [user |-> NoOwner, access |-> c.access,
                                                     refresh |-> c.newRaw]]]
                  /\ issued' = (c.newRaw :> Handed(c.userID, c.raw, c.access))
                                  @@ Fate(issued, c.raw, "rotated")
             ELSE /\ call' = [call EXCEPT ![p] =
                                 [c1 EXCEPT !.pc = AfterEval(o, r.err),
                                            !.err = EvalErr(o, r.err)]]
                  /\ issued' = IF Applied(o) /\ r.err = "ok"
                               THEN Fate(issued, c.raw, "orphaned") ELSE issued
    /\ Spend(0, o)
    /\ UNCHANGED <<svc, now, nextRaw, userSide>>

\* lines 168-179: cmd.Err() != nil: DEL newKey (its result ignored), map the error
RotateCleanup(p, o) ==
    /\ call[p].op = "Rotate"
    /\ call[p].pc = "cleanup"
    /\ o \in WriteOutcomes
    /\ LET c == call[p]
           newKey == redisKey(sha256Hex(c.newRaw))
           put == IF Applied(o) THEN RedisDel(store, newKey) ELSE store
       IN /\ store' = put
          /\ call' = [call EXCEPT ![p] = Fail(Sent(c, "DEL", o, put), c.err)]
    /\ Spend(0, o)
    /\ UNCHANGED <<svc, now, nextRaw, issued, userSide>>

----------------------------------------------------------------------------
(* RevokeRefreshByRaw *)

\* a revoke that reports a key it did not find: C7 fails for it
RevokeErrStrict(o, deleted) ==
    IF o # "ok" THEN "ErrStorage" ELSE IF deleted = 0 THEN "InvalidToken" ELSE "nil"

\* lines 187-191: the error returned after DEL answered with `deleted` keys
RevokeErr(o, deleted) == IF o # "ok" THEN "ErrStorage" ELSE "nil"

\* a revocation that also clears the service's secret: C21 fails for it
RevokeRefreshByRawRekeying(p, raw, o) ==
    /\ svc.state = "ready"
    /\ Free(p)
    /\ raw \in Known
    /\ o \in WriteOutcomes
    /\ LET key == redisKey(sha256Hex(raw))
           put == IF Applied(o) THEN RedisDel(store, key) ELSE store
           c == [Idle EXCEPT !.op = "Revoke", !.raw = raw, !.tags = StartTags(raw)]
       IN /\ store' = put
          /\ call' = [call EXCEPT ![p] =
                        [Sent(c, "DEL", o, put) EXCEPT
                            !.pc = "done",
                            !.err = IF o # "ok" THEN "ErrStorage" ELSE "nil"]]
    /\ issued' = IF Applied(o) THEN Fate(issued, raw, "revoked") ELSE issued
    /\ Spend(1, o)
    /\ svc' = [svc EXCEPT !.secret = 0]
    /\ UNCHANGED <<now, nextRaw, userSide>>

RevokeRefreshByRaw(p, raw, o) ==
    /\ svc.state = "ready"
    /\ Free(p)
    /\ raw \in Known
    /\ o \in WriteOutcomes
    /\ LET key == redisKey(sha256Hex(raw))
           put == IF Applied(o) THEN RedisDel(store, key) ELSE store
           c == [Idle EXCEPT !.op = "Revoke", !.raw = raw, !.tags = StartTags(raw)]
       IN /\ store' = put
          /\ call' = [call EXCEPT ![p] =
                        [Sent(c, "DEL", o, put) EXCEPT
                            !.pc = "done",
                            !.err = RevokeErr(o, RedisExists(store, key))]]
    /\ issued' = IF Applied(o) THEN Fate(issued, raw, "revoked") ELSE issued
    /\ Spend(1, o)
    /\ UNCHANGED <<svc, now, nextRaw, userSide>>

----------------------------------------------------------------------------
(* The environment *)

\* the handler returns to its caller; the task is free for the next request
Return(p) ==
    /\ call[p].pc = "done"
    /\ call' = [call EXCEPT ![p] = Idle]
    /\ UNCHANGED <<svc, now, store, nextRaw, events, issued, userSide>>

\* a second passes; Redis drops the keys whose TTL ran out
Tick ==
    /\ Spend(1, "ok")
    /\ now' = now + 1
    /\ store' = RedisExpireKeys(store, now + 1)
    /\ UNCHANGED <<svc, nextRaw, call, issued, userSide>>

Construct ==
    \E len \in SecretLens, ping \in {"ok", "err"} : NewTokenService(len, ping)

Outcomes == {"ok", "err", "lost", "fail", "norand"}

Step(p) ==
    \/ \E u \in Owners, g, o \in Outcomes : NextOwner(u) /\ IssueStart(p, u, g, o)
    \/ \E o \in Outcomes : GenerateTokensExpire(p, o)
    \/ \E r \in Raws, o \in Outcomes : ValidateStart(p, r, o)
    \/ \E o \in Outcomes : ValidateHGet(p, o)
    \/ \E r \in Raws, e \in Owners \cup {NoOwner}, o \in Outcomes :
           (r = EmptyRaw => e = NoOwner) /\ RotateStart(p, r, e, o)
    \/ \E o \in Outcomes : RotateHGet(p, o)
    \/ \E g, o \in Outcomes : RotateGenerate(p, g, o)
    \/ \E o \in Outcomes : RotateEval(p, o)
    \/ \E o \in Outcomes : RotateCleanup(p, o)
    \/ \E r \in Raws, o \in Outcomes : RevokeRefreshByRaw(p, r, o)

\* A return touches nothing shared, so it is taken before any other step:
\* no step is lost, and a finished call is seen in the state it returned in.
Returning == \E p \in Procs : call[p].pc = "done"

Next ==
    \/ \E p \in Procs : Return(p)
    \/ ~Returning /\ Construct
    \/ ~Returning /\ \E p \in Procs : Step(p)
    \/ ~Returning /\ Tick

\* the service as AuthServer drives it
Spec == Init /\ [][Next]_vars

\* the TokenService API called directly, also with the empty owner
IssueEmptyOwner ==
    \E p \in Procs, g, o \in Outcomes : IssueStart(p, NoOwner, g, o)

NextAPI ==
    \/ Next
    \/ ~Returning /\ IssueEmptyOwner

SpecAPI == Init /\ [][NextAPI]_vars

\* GenerateTokens whose randomBase64 returns a secret it has returned before
\* (tag "collision"): crypto/rand may return any 64 bytes
CollideStart(p, userID, rawRefresh, o) ==
    /\ svc.state = "ready"
    /\ Free(p)
    /\ rawRefresh \in DOMAIN issued
    /\ o \in WriteOutcomes
    /\ GenerateTokensPut(p, [Idle EXCEPT !.op = "Issue", !.userID = userID,
                                        !.tags = StartTags(rawRefresh) \cup {"collision"}],
                         userID, rawRefresh, "ok", o)
    /\ Spend(1, o)
    /\ UNCHANGED <<svc, now, nextRaw, issued, userSide>>

Collide ==
    \E p \in Procs, u \in Owners, r \in Secrets, o \in Outcomes :
        NextOwner(u) /\ CollideStart(p, u, r, o)

NextCollide ==
    \/ Next
    \/ ~Returning /\ Collide

\* the service with a random source that may repeat itself
SpecCollide == Init /\ [][NextCollide]_vars

----------------------------------------------------------------------------
(* One RevokeRefreshByRaw and one RotateRefresh of the same secret, started  *)
(* in either order on an active record and running command by command in     *)
(* every interleaving, with no fault on any command.  A call that has        *)
(* returned keeps its frame, so that both results are seen side by side.     *)

\* the secrets a login returned
LoginRaws == {r \in DOMAIN issued : issued[r].from = EmptyRaw}

\* a service returned by NewTokenService; one earlier GenerateTokens for the
\* first owner returned the first secret at time t, and its record is active
InitRace ==
    /\ svc = [state |-> "ready", len |-> MinSecretLen, secret |-> MinSecretLen,
              accessTTL |-> AccessTTL, refreshTTL |-> RefreshTTL,
              err |-> "nil", pings |-> 1]
    /\ now \in 0..MaxClock
    /\ nextRaw = 2
    /\ events = 0
    /\ call = [p \in Procs |-> Idle]
    /\ \E t \in 0..MaxClock :
          /\ t <= now
          /\ now < t + RefreshTTL
          /\ store = (KeyOf(nextRaw - 1) :>
                        [user_id |-> OwnerSeq[1], issued_at |-> t, exp |-> t + RefreshTTL])
          /\ issued = ((nextRaw - 1) :>
                        [owner |-> OwnerSeq[1], at |-> t, from |-> EmptyRaw,
                         access |-> SignAccess(OwnerSeq[1], MinSecretLen, AccessTTL, t),
                         fate |-> "live"])
    /\ InitUserSide

\* no task has begun a call of operation op
NotBegun(op) == \A p \in Procs : call[p].op # op

NextRace ==
    \/ \E p \in Procs, r \in LoginRaws, e \in Owners \cup {NoOwner} :
           NotBegun("Rotate") /\ RotateStart(p, r, e, "ok")
    \/ \E p \in Procs : RotateHGet(p, "ok")
    \/ \E p \in Procs : RotateGenerate(p, "ok", "ok")
    \/ \E p \in Procs : GenerateTokensExpire(p, "ok")
    \/ \E p \in Procs : RotateEval(p, "ok")
    \/ \E p \in Procs : RotateCleanup(p, "ok")
    \/ \E p \in Procs, r \in LoginRaws :
           NotBegun("Revoke") /\ RevokeRefreshByRaw(p, r, "ok")

SpecRace == InitRace /\ [][NextRace]_vars

----------------------------------------------------------------------------
(* main from the creation of the pool on: NewPool, NewAuthServer, the        *)
(* registration of the gRPC server and Serve.  rpc[1] is the frame of main.  *)
(* Durations are in seconds.                                                 *)

\* NewPool, line 86: attempts := 3
attempts == 3

\* what pool.Ping(pingCtx) answers: nil, or an error: connection refused,
\* or the deadline of pingCtx (5 s) exceeded
PingOutcomes == {"ok", "refused", "timeout"}

\* main at `pool, err := NewPool(ctx)`.  pool: the pgxpool ("nil": none made,
\* "open", "closed"); i, delay: the locals of NewPool's loop; pings: the
\* answers of the pings so far; slept: the durations slept so far; ret: what
\* NewPool returned; server: the gRPC server ("none", "registered", "serving")
MainFrame ==
    [op |-> "main", pc |-> "NewPool", pool |-> "nil", i |-> 0, delay |-> 0,
     pings |-> <<>>, slept |-> <<>>, ret |-> [pool |-> "nil", err |-> "nil"],
     server |-> "none"]

InitPool ==
    /\ svc = [state |-> "new", len |-> 0, secret |-> 0, accessTTL |-> 0,
              refreshTTL |-> 0, err |-> "nil", pings |-> 0]
    /\ now = 0
    /\ store = EmptyMap
    /\ nextRaw = 1
    /\ events = 0
    /\ call = [p \in Procs |-> Idle]
    /\ issued = EmptyMap
    /\ users = {}
    /\ repo = NewUserRepo
    /\ rpc = [p \in Procs |-> MainFrame]

\* NewPool returns (pool, err) to main
PoolReturn(f, pool, err) ==
    [f EXCEPT !.pc = "returned", !.ret = [pool |-> pool, err |-> err]]

\* a step of main that leaves the token side and the tables alone
MainStep(f) ==
    /\ rpc' = [rpc EXCEPT ![1] = f]
    /\ UNCHANGED <<svc, now, store, nextRaw, events, call, issued, users, repo>>

\* lines 70-87: ParseConfig(DB_URL), NewWithConfig, attempts, delay; d: both succeed
\* ("ok"), the URL does not parse ("parse"), the pool cannot be made ("config")
NewPoolConfig(d) ==
    /\ rpc[1].pc = "NewPool"
    /\ d \in {"ok", "parse", "config"}
    /\ MainStep(IF d = "ok"
                THEN [rpc[1] EXCEPT !.pc = "ping", !.pool = "open", !.i = 0, !.delay = 1]
                ELSE PoolReturn(rpc[1], "nil", d))

\* a loop without back-off: C36 fails for it
NextDelayConstant(delay) == delay

\* line 96: delay *= 2
NextDelay(delay) == delay * 2

\* lines 88-94 and 99-105: one Ping; in the loop (i < attempts) a nil answer
\* returns the pool and an error goes on to the Sleep; after the loop a nil
\* answer returns the pool and an error closes it and is returned
NewPoolPing(o) ==
    /\ rpc[1].pc = "ping"
    /\ o \in PingOutcomes
    /\ LET f == [rpc[1] EXCEPT !.pings = Append(@, o)]
       IN MainStep(IF o = "ok" THEN PoolReturn(f, "pool", "nil")
                   ELSE IF f.i < attempts THEN [f EXCEPT !.pc = "sleep"]
                   ELSE PoolReturn([f EXCEPT !.pool = "closed"], "nil", o))

\* lines 95-96 and the loop's i++ (line 88): Sleep(delay), double it, next attempt
NewPoolSleep ==
    /\ rpc[1].pc = "sleep"
    /\ MainStep([rpc[1] EXCEPT !.pc = "ping",
                               !.slept = Append(@, rpc[1].delay),
                               !.delay = NextDelay(@),
                               !.i = @ + 1])

\* lines 42-45: Fatal on an error of NewPool (zap's Fatal logs and ends the
\* process: main does not go on), NewAuthServer otherwise
MainAfterPool ==
    /\ rpc[1].pc = "returned"
    /\ MainStep([rpc[1] EXCEPT !.pc = IF rpc[1].ret.err # "nil" THEN "exit"
                                      ELSE "NewAuthServer"])

\* line 47, main.go 129-144: NewAuthServer is NewTokenService on SECRET_KEY;
\* NewUserService cannot fail
MainNewAuthServer ==
    /\ rpc[1].pc = "NewAuthServer"
    /\ \E len \in SecretLens, ping \in {"ok", "err"} : NewTokenService(len, ping)

\* lines 48-52: Fatal on an error of NewAuthServer; otherwise grpc.NewServer
\* and RegisterAuthServiceServer
MainRegister ==
    /\ rpc[1].pc = "NewAuthServer"
    /\ svc.state # "new"
    /\ MainStep(IF svc.state = "ready"
                THEN [rpc[1] EXCEPT !.pc = "Serve", !.server = "registered"]
                ELSE [rpc[1] EXCEPT !.pc = "exit"])

\* lines 54-58: go grpcServer.Serve(listen)
MainServe ==
    /\ rpc[1].pc = "Serve"
    /\ MainStep([rpc[1] EXCEPT !.pc = "serving", !.server = "serving"])

NextPool ==
    \/ \E d \in {"ok", "parse", "config"} : NewPoolConfig(d)
    \/ \E o \in PingOutcomes : NewPoolPing(o)
    \/ NewPoolSleep
    \/ MainAfterPool
    \/ MainNewAuthServer
    \/ MainRegister
    \/ MainServe

SpecPool == InitPool /\ [][NextPool]_vars

\* main is the only goroutine and none of its calls blocks for ever: every
\* Ping has a deadline of 5 s, every Sleep ends
SpecPoolLive == SpecPool /\ WF_vars(NextPool)

----------------------------------------------------------------------------
(* ValidateAccess, a function of the token, the secret and the clock, applied *)
(* to tokens of any making                                                    *)

\* the parsed tokens presented: signed with the service's secret or another
\* key, with HS256 or another algorithm, of kind "access" or not, valid from
\* nbf and expiring at exp
Tokens ==
    [uid : Owners, typ : {"access", "refresh"}, alg : {"HS256", "HS384"},
     key : {MinSecretLen, MinSecretLen + 1}, iat : {0}, nbf : {0, 1},
     exp : 1..MaxClock]

\* a ready service at any time of the clock
InitAccess ==
    /\ svc = [state |-> "ready", len |-> MinSecretLen, secret |-> MinSecretLen,
              accessTTL |-> AccessTTL, refreshTTL |-> RefreshTTL,
              err |-> "nil", pings |-> 1]
    /\ now \in 0..MaxClock
    /\ store = EmptyMap
    /\ nextRaw = 1
    /\ events = 0
    /\ call = [p \in Procs |-> Idle]
    /\ issued = EmptyMap
    /\ InitUserSide

\* ValidateAccess(tokenStr): no command is sent, the call is one step
AccessCall(p, tok) ==
    /\ svc.state = "ready"
    /\ Free(p)
    /\ LET r == ValidateAccess(tok, svc.secret, now)
       IN call' = [call EXCEPT ![p] =
                     [Idle EXCEPT !.op = "Access", !.pc = "done", !.access = tok,
                                  !.err = r[2], !.out = [NoOut EXCEPT !.user = r[1]]]]
    /\ UNCHANGED <<svc, now, store, nextRaw, events, issued, userSide>>

NextAccess ==
    \/ \E p \in Procs : Return(p)
    \/ ~Returning /\ \E p \in Procs, tok \in Tokens : AccessCall(p, tok)

SpecAccess == InitAccess /\ [][NextAccess]_vars

----------------------------------------------------------------------------
(* The builders used as their package documents it: one goroutine calls the *)
(* methods of a builder one after the other                                 *)

\* conditions passed to Where, with no, one and two '?'
Conds ==
    {<<T("a IS NULL")>>, <<T("a = "), Q>>, <<T("a = "), Q, T(" OR b = "), Q>>}
\* argument lists passed with them
ArgLists == {<<>>, <<"x">>, <<"x", "y">>}
\* the builders by kind
BuilderKinds == {"SelectBuilder", "UpdateBuilder", "InsertBuilder", "DeleteBuilder"}

\* the last builder call: the method and the builder's kind, what Build
\* returned, the panic of Where or Set if any, and, when that call was a
\* Build of the same builder, what the Build before it returned (prev)
NoResult == [sql |-> <<>>, args |-> <<>>, err |-> "nil"]
NoBuild ==
    [op |-> "idle", kind |-> "", out |-> NoResult, panic |-> "nil",
     rebuilt |-> FALSE, prev |-> NoResult]

InitBuilder ==
    /\ svc = [state |-> "new", len |-> 0, secret |-> 0, accessTTL |-> 0,
              refreshTTL |-> 0, err |-> "nil", pings |-> 0]
    /\ now = 0
    /\ store = EmptyMap
    /\ nextRaw = 1
    /\ events = 0
    /\ call = [p \in Procs |-> Idle]
    /\ issued = EmptyMap
    /\ users = {}
    /\ repo = NewUserRepo
    /\ rpc = [p \in Procs |-> NoBuild]

\* the calling goroutine has not panicked
Calling == rpc[1].panic = "nil"

\* a builder call that is no Build: the builder of kind k becomes b
Called(op, k, b, panic) ==
    /\ Calling
    /\ Spend(1, "ok")
    /\ repo' = [repo EXCEPT ![k] = b]
    /\ rpc' = [rpc EXCEPT ![1] = [NoBuild EXCEPT !.op = op, !.kind = k, !.panic = panic]]
    /\ UNCHANGED <<svc, now, store, nextRaw, call, issued, users>>

\* Select("id", "username").From("users").Limit(1), Into("users").Columns(
\* "id", "username"), Table("users"), From("users")
BuilderTarget(k) ==
    LET b == repo[k]
    IN Called("Target", k,
              CASE k = "SelectBuilder" ->
                       SelectLimit(SelectFrom(SelectCols(b, <<"id", "username">>),
                                              "users"), 1)
                [] k = "InsertBuilder" ->
                       InsertColumns(InsertInto(b, "users"), <<"id", "username">>)
                [] k = "UpdateBuilder" -> UpdateTable(b, "users")
                [] k = "DeleteBuilder" -> DeleteFrom(b, "users"),
              "nil")

\* Where(cond, args...) on a Select, Update or Delete builder
BuilderWhere(k, cond, args) ==
    /\ k # "InsertBuilder"
    /\ LET r == WhereOn(repo[k], cond, args)
       IN Called("Where", k, r.b, r.panic)

\* Set(col, value) on the Update builder
BuilderSet(value) ==
    LET r == UpdateSet(repo.UpdateBuilder, "a", value)
    IN Called("Set", "UpdateBuilder", r.b, r.panic)

\* Values(vals...) on the Insert builder
BuilderValues(vals) ==
    Called("Values", "InsertBuilder", InsertValues(repo.InsertBuilder, vals), "nil")

\* Build() on the builder of kind k
BuilderBuild(k) ==
    /\ Calling
    /\ Spend(1, "ok")
    /\ LET r == CASE k = "SelectBuilder" -> SelectBuild(repo[k])
                  [] k = "InsertBuilder" -> InsertBuild(repo[k])
                  [] k = "UpdateBuilder" -> UpdateBuild(repo[k])
                  [] k = "DeleteBuilder" -> DeleteBuild(repo[k])
           again == rpc[1].op = "Build" /\ rpc[1].kind = k
       IN /\ repo' = [repo EXCEPT ![k] = r.b]
          /\ rpc' = [rpc EXCEPT ![1] =
                       [op |-> "Build", kind |-> k,
                        out |-> [sql |-> r.sql, args |-> r.args, err |-> r.err],
                        panic |-> "nil", rebuilt |-> again,
                        prev |-> IF again THEN rpc[1].out ELSE NoResult]]
    /\ UNCHANGED <<svc, now, store, nextRaw, call, issued, users>>

NextBuilder ==
    \/ \E k \in BuilderKinds : BuilderTarget(k)
    \/ \E k \in BuilderKinds, cond \in Conds, args \in ArgLists : BuilderWhere(k, cond, args)
    \/ \E value \in {"x", "y"} : BuilderSet(value)
    \/ \E vals \in ArgLists : BuilderValues(vals)
    \/ \E k \in BuilderKinds : BuilderBuild(k)

SpecBuilder == InitBuilder /\ [][NextBuilder]_vars

----------------------------------------------------------------------------
(* The RPC handlers of AuthServer over UserService, userRepo and            *)
(* TokenService.  The builders of the userRepo are shared by all requests   *)
(* and not synchronised: every read and every write of a builder field is   *)
(* a step of its own, and a task appends to the slice it read.  A step      *)
(* that only reads is folded into the step before it when that one touches  *)
(* nothing shared.  The placeholders of one row of InsertBuilder.Build are  *)
(* numbered in one step: of the numbers two overlapping loops can write,    *)
(* those that split a row are not followed.                                 *)

\* the rows of users when the server starts
SeedUsers == {[id |-> "u1", username |-> "alice", password |-> Hash("pw1")]}

\* the credentials of the Login requests: of a user, with a wrong password,
\* of nobody
Credentials == {<<"alice", "pw1">>, <<"alice", "pw2">>, <<"carol", "pw1">>}

\* main: the pool, NewAuthServer (NewUserService, NewUserRepo,
\* NewTokenService) all succeeded
InitRPC ==
    /\ svc = [state |-> "ready", len |-> MinSecretLen, secret |-> MinSecretLen,
              accessTTL |-> AccessTTL, refreshTTL |-> RefreshTTL,
              err |-> "nil", pings |-> 1]
    /\ now = 0
    /\ store = EmptyMap
    /\ nextRaw = 1
    /\ events = 0
    /\ call = [p \in Procs |-> Idle]
    /\ issued = EmptyMap
    /\ users = SeedUsers
    /\ repo = NewUserRepo
    /\ rpc = [p \in Procs |-> IdleRPC]

\* the task is in a UserService call
InUser == [Idle EXCEPT !.op = "User", !.pc = "user"]

\* FindByUsername from the write of Select to the read of wheres in Build:
\* the step at f.pc on the SelectBuilder s, [reg, sb, pc]
SelectChain(f, s) ==
    LET r == f.reg
    IN CASE f.pc = "sel_w" ->      \* line 120, line 130
              [reg |-> NoReg, pc |-> "cnt_r",
               sb |-> [s EXCEPT !.columns = r.cols \o <<"id", "username", "password">>,
                                !.from = "users"]]
         [] f.pc = "cnt_r" ->      \* line 76, the read of b.argCount++
              [reg |-> [NoReg EXCEPT !.n = s.argCount], pc |-> "cnt_w", sb |-> s]
         [] f.pc = "cnt_w" ->      \* line 76, the write
              [reg |-> NoReg, pc |-> "frag_r", sb |-> [s EXCEPT !.argCount = r.n + 1]]
         [] f.pc = "frag_r" ->     \* line 77
              [reg |-> [NoReg EXCEPT !.frag = <<T("username = "), Dollar(s.argCount)>>],
               pc |-> "args_r", sb |-> s]
         [] f.pc = "args_r" ->     \* line 56, the read
              [reg |-> [r EXCEPT !.args = s.args], pc |-> "args_w", sb |-> s]
         [] f.pc = "args_w" ->     \* line 56, the write
              [reg |-> [r EXCEPT !.args = <<>>], pc |-> "add_r",
               sb |-> [s EXCEPT !.args = r.args \o <<f.username>>]]
         [] f.pc = "add_r" ->      \* line 57, the read
              [reg |-> [r EXCEPT !.n = s.argCount], pc |-> "add_w", sb |-> s]
         [] f.pc = "add_w" ->      \* line 57, the write
              [reg |-> [r EXCEPT !.n = 0], pc |-> "wh_r",
               sb |-> [s EXCEPT !.argCount = r.n + 1]]
         [] f.pc = "wh_r" ->       \* Where, the read of s.wheres
              [reg |-> [r EXCEPT !.wh = s.wheres], pc |-> "wh_w", sb |-> s]
         [] f.pc = "wh_w" ->       \* Where, the write; Limit
              [reg |-> NoReg, pc |-> "b_cols",
               sb |-> [s EXCEPT !.wheres = Append(r.wh, r.frag), !.limit = PtrInt(1)]]
         [] f.pc = "b_cols" ->     \* Build, line 177
              [reg |-> [NoReg EXCEPT !.cols = s.columns], pc |-> "b_wh", sb |-> s]
         [] f.pc = "b_wh" ->       \* Build, line 188
              [reg |-> [r EXCEPT !.wh = s.wheres], pc |-> "query", sb |-> s]

SelectPcs ==
    {"sel_w", "cnt_r", "cnt_w", "frag_r", "args_r", "args_w", "add_r", "add_w",
     "wh_r", "wh_w", "b_cols", "b_wh"}

\* AuthServer.Login -> UserService.Login -> FindByUsername: the read of
\* s.columns in Select.  The request counts for the two service calls it
\* is to make.
LoginStart(p, username, password) ==
    /\ Free(p)
    /\ <<username, password>> \in Credentials
    /\ call' = [call EXCEPT ![p] = InUser]
    /\ rpc' = [rpc EXCEPT ![p] =
                  [IdleRPC EXCEPT !.op = "Login", !.pc = "sel_w",
                                  !.username = username, !.password = password,
                                  !.reg = [NoReg EXCEPT !.cols = repo.SelectBuilder.columns]]]
    /\ Spend(2, "ok")
    /\ UNCHANGED <<svc, now, store, nextRaw, issued, users, repo>>

\* one access of FindByUsername to the shared SelectBuilder
FindByUsernameStep(p) ==
    /\ rpc[p].op = "Login"
    /\ rpc[p].pc \in SelectPcs
    /\ LET st == SelectChain(rpc[p], repo.SelectBuilder)
       IN /\ rpc' = [rpc EXCEPT ![p] = [@ EXCEPT !.reg = st.reg, !.pc = st.pc]]
          /\ repo' = [repo EXCEPT !.SelectBuilder = st.sb]
    /\ UNCHANGED <<svc, now, store, nextRaw, events, call, issued, users>>

\* UserService.Login, lines 131-144, given what FindByUsername returned
UserLogin(found, password) ==
    IF found.err # NilErr
    THEN IF found.err = ErrNotFound
         THEN [user |-> NoUser, err |-> ErrNotFound]
         ELSE [user |-> NoUser, err |-> WithMessage(ErrStorageError, found.err.msg)]
    ELSE IF ~CompareHashAndPassword(found.user.password, password)
    THEN [user |-> NoUser, err |-> ErrLoginUser]
    ELSE [user |-> found.user, err |-> NilErr]

\* a handler that goes on to GenerateTokens whatever the credential check
\* said: C25 fails for it
AfterLoginIgnoring(err) == "tokens"

\* AuthServer.Login, lines 148-151: on an error of UserService.Login the
\* handler returns it, else it goes on to GenerateTokens
AfterLogin(err) == IF err = NilErr THEN "tokens" ELSE "failed"

\* the SELECT that Build makes of the columns, fragments and args it read
SelectText(cols, wh, args) ==
    SelectBuild([NewSelectBuilder EXCEPT !.columns = cols, !.from = "users",
                                         !.wheres = wh, !.limit = PtrInt(1),
                                         !.args = args]).sql

\* Build returns s.args; pool.QueryRow, row.Scan; UserService.Login
\* returns; on an error AuthServer.Login returns it
LoginQuery(p, d) ==
    /\ rpc[p].op = "Login"
    /\ rpc[p].pc = "query"
    /\ d \in ReadOutcomes
    /\ LET f == rpc[p]
           args == repo.SelectBuilder.args
           found == QueryRowScan(users, f.reg.cols, f.reg.wh, args, d)
           res == UserLogin(found, f.password)
       IN /\ rpc' = [rpc EXCEPT ![p] =
                        [@ EXCEPT !.reg = NoReg, !.user = res.user, !.err = res.err,
                                  !.sql = SelectText(f.reg.cols, f.reg.wh, args),
                                  !.args = args,
                                  !.pc = AfterLogin(res.err)]]
          /\ call' = [call EXCEPT ![p] =
                         IF AfterLogin(res.err) = "tokens" THEN @
                         ELSE [@ EXCEPT !.pc = "done"]]
    /\ Spend(0, d)
    /\ UNCHANGED <<svc, now, store, nextRaw, issued, users, repo>>

\* AuthServer.Login, line 154: GenerateTokens(ctx, user.ID)
LoginGenerate(p, g, o) ==
    /\ rpc[p].op = "Login"
    /\ rpc[p].pc = "tokens"
    /\ g \in GenOutcomes
    /\ o \in (IF g = "ok" THEN WriteOutcomes ELSE {"ok"})
    /\ GenerateTokensPut(p, [Idle EXCEPT !.op = "Issue", !.userID = rpc[p].user.id],
                         rpc[p].user.id, nextRaw, g, o)
    /\ FreshRaw(g)
    /\ Spend(0, IF g = "ok" THEN o ELSE g)
    /\ rpc' = [rpc EXCEPT ![p] = [@ EXCEPT !.pc = "issued"]]
    /\ UNCHANGED <<svc, now, issued, users, repo>>

\* uuid.New().String() of the k-th draw from crypto/rand
UUID(k) == <<"n1", "n2", "n3", "n4", "n5", "n6">>[k]

\* the requests to register: a username that has a row, and a new one
Registrations == {<<"alice", "pw1">>, <<"carol", "pw2">>}

\* Create from the write of Columns to the last write of Build: the step
\* at f.pc on the InsertBuilder i, [reg, ib, pc].  Inside the loop of Build
\* the placeholders of one row are written in one step.
InsertChain(f, i) ==
    LET r == f.reg
        row == IF r.k \in DOMAIN r.rows THEN r.rows[r.k] ELSE <<>>
    IN CASE f.pc = "col_w" ->      \* line 250 (Into), line 255 (Columns)
              [reg |-> NoReg, pc |-> "val_r",
               ib |-> [i EXCEPT !.table = "users",
                                !.columns = r.cols \o <<"id", "username", "password">>]]
         [] f.pc = "val_r" ->      \* line 261, the read of i.values
              [reg |-> [NoReg EXCEPT !.rows = i.values], pc |-> "val_w", ib |-> i]
         [] f.pc = "val_w" ->      \* line 261, the write
              [reg |-> NoReg, pc |-> "b_cols",
               ib |-> [i EXCEPT !.values =
                          Append(r.rows, <<f.user.id, f.user.username, f.user.password>>)]]
         [] f.pc = "b_cols" ->     \* Build, line 279
              [reg |-> [NoReg EXCEPT !.cols = i.columns], pc |-> "b_rows", ib |-> i]
         [] f.pc = "b_rows" ->     \* line 284: range i.values
              [reg |-> [r EXCEPT !.rows = i.values, !.k = 1], pc |-> "row", ib |-> i]
         [] f.pc = "row" ->        \* lines 285-297: the placeholders of one row
              IF Len(row) # Len(i.columns)
              THEN [reg |-> NoReg, pc |-> "build_err", ib |-> i]
              ELSE [reg |-> [r EXCEPT !.frag = [j \in DOMAIN row |->
                                                   <<Dollar(i.argCount + j)>>]],
                    pc |-> "args_r",
                    ib |-> [i EXCEPT !.argCount = @ + Len(row)]]
         [] f.pc = "args_r" ->     \* line 298; line 56, the read
              [reg |-> [r EXCEPT !.frags = Append(@, <<T("(")>> \o Join(r.frag, ", ")
                                                     \o <<T(")")>>),
                                 !.frag = <<>>, !.args = i.args],
               pc |-> "args_w", ib |-> i]
         [] f.pc = "args_w" ->     \* line 56, the write
              [reg |-> [r EXCEPT !.args = <<>>], pc |-> "add_r",
               ib |-> [i EXCEPT !.args = r.args \o row]]
         [] f.pc = "add_r" ->      \* line 57, the read
              [reg |-> [r EXCEPT !.n = i.argCount], pc |-> "add_w", ib |-> i]
         [] f.pc = "add_w" ->      \* line 57, the write; the next row
              [reg |-> [r EXCEPT !.n = 0, !.k = IF r.k < Len(r.rows) THEN @ + 1 ELSE 0],
               pc |-> IF r.k < Len(r.rows) THEN "row" ELSE "exec",
               ib |-> [i EXCEPT !.argCount = r.n + Len(row)]]

InsertPcs ==
    {"col_w", "val_r", "val_w", "b_cols", "b_rows", "row", "args_r", "args_w",
     "add_r", "add_w"}

\* the INSERT that Build makes of the columns and row fragments it read
InsertText(cols, frags) ==
    <<T("INSERT INTO "), T("users"), T(" (")>> \o Join(Cols(cols), ", ")
    \o <<T(") VALUES ")>> \o Join(frags, ", ")

\* Tx.RunInTx as the transaction runner of the tests: its own error
\* without calling fn when it fails (tx), else what fn returned
RunInTx(tx, fnErr) ==
    IF tx # "ok" THEN RawError("begin transaction failed") ELSE fnErr

\* a Register that hands on the error of Repo.Create as it is: C29 fails
\* for it
UserRegisterRaw(user, tx, createErr) ==
    LET err == RunInTx(tx, createErr)
    IN IF err # NilErr THEN [id |-> "", err |-> err]
       ELSE [id |-> user.id, err |-> NilErr]

\* UserService.Register, lines 112-127, given how RunInTx and Repo.Create
\* ended: [id, err]
UserRegister(user, tx, createErr) ==
    LET err == RunInTx(tx, IF createErr # NilErr THEN ErrCreateUser ELSE NilErr)
    IN IF err # NilErr THEN [id |-> "", err |-> err]
       ELSE [id |-> user.id, err |-> NilErr]

\* the task p leaves Register with the result res
Registered(p, f, res) ==
    /\ rpc' = [rpc EXCEPT ![p] = [f EXCEPT !.reg = NoReg, !.pc = "returned",
                                           !.id = res.id, !.err = res.err]]
    /\ call' = [call EXCEPT ![p] = [InUser EXCEPT !.pc = "done"]]

\* AuthServer.Register -> UserService.Register: bcrypt (h), uuid, RunInTx
\* (t), and in Create the write of Into and the read of i.columns.  The
\* request counts for the two calls it is to make, RunInTx and Create.
RegisterStart(p, username, password, h, t) ==
    /\ Free(p)
    /\ <<username, password>> \in Registrations
    /\ h \in {"ok", "fail"}
    /\ t \in (IF h = "ok" THEN ReadOutcomes ELSE {"ok"})
    /\ LET user == [id |-> UUID(nextRaw), username |-> username,
                    password |-> Hash(password)]
           f == [IdleRPC EXCEPT !.op = "Register", !.username = username,
                                !.password = password]
       IN IF h # "ok"
          THEN /\ Registered(p, f, [id |-> "", err |-> ErrHashPassword])
               /\ UNCHANGED nextRaw
          ELSE IF t # "ok"
          THEN /\ Registered(p, [f EXCEPT !.user = user, !.tx = t],
                             UserRegister(user, t, NilErr))
               /\ nextRaw' = nextRaw + 1
          ELSE /\ rpc' = [rpc EXCEPT ![p] =
                             [f EXCEPT !.user = user, !.tx = t, !.create = "called",
                                       !.pc = "col_w",
                                       !.reg = [NoReg EXCEPT
                                                   !.cols = repo.InsertBuilder.columns]]]
               /\ call' = [call EXCEPT ![p] = InUser]
               /\ nextRaw' = nextRaw + 1
    /\ Spend(2, IF h # "ok" THEN h ELSE t)
    /\ UNCHANGED <<svc, now, store, issued, users, repo>>

\* one access of Create to the shared InsertBuilder; a row that does not
\* fit the columns ends Build, Create and Register
CreateStep(p) ==
    /\ rpc[p].op = "Register"
    /\ rpc[p].pc \in InsertPcs
    /\ LET st == InsertChain(rpc[p], repo.InsertBuilder)
       IN /\ repo' = [repo EXCEPT !.InsertBuilder = st.ib]
          /\ IF st.pc = "build_err"
             THEN Registered(p, [rpc[p] EXCEPT !.create = "err"],
                             UserRegister(rpc[p].user, "ok",
                                 RawError("insert: values count does not match columns count")))
             ELSE /\ rpc' = [rpc EXCEPT ![p] = [@ EXCEPT !.reg = st.reg, !.pc = st.pc]]
                  /\ UNCHANGED call
    /\ UNCHANGED <<svc, now, store, nextRaw, events, issued, users>>

\* Build returns i.args; q.Exec; Create, RunInTx and Register return
RegisterExec(p, d) ==
    /\ rpc[p].op = "Register"
    /\ rpc[p].pc = "exec"
    /\ d \in ReadOutcomes
    /\ LET f == rpc[p]
           args == repo.InsertBuilder.args
           done == ExecInsert(users, f.reg.cols, f.reg.frags, args, d)
       IN /\ users' = done.table
          /\ Registered(p, [f EXCEPT !.sql = InsertText(f.reg.cols, f.reg.frags),
                                     !.args = args,
                                     !.create = IF done.err = NilErr THEN "ok" ELSE "err"],
                        UserRegister(f.user, "ok", done.err))
    /\ Spend(0, d)
    /\ UNCHANGED <<svc, now, store, nextRaw, issued, repo>>

\* a pb.TokenResponse built at time t: the two tokens, what is left of
\* their lives, and the user id
TokenResponse(access, refresh, accessExp, refreshExp, userID, t) ==
    [AccessToken |-> access, RefreshToken |-> refresh,
     AccessExpiresIn |-> accessExp - t, RefreshExpiresIn |-> refreshExp - t,
     UserId |-> userID]

\* what AuthServer.Login hands to gRPC for the finished call of task p:
\* the response (<<>> is nil) and the error (main.go 146-170)
LoginReply(p) ==
    IF rpc[p].err # NilErr THEN [resp |-> <<>>, err |-> rpc[p].err]
    ELSE IF call[p].err # "nil" THEN [resp |-> <<>>, err |-> ErrBadRequest]
    ELSE [resp |-> <<TokenResponse(call[p].out.access, call[p].out.refresh,
                                   call[p].out.access.exp,
                                   call[p].t0 + svc.refreshTTL, rpc[p].user.id, now)>>,
          err |-> NilErr]

\* what AuthServer.Refresh hands to gRPC (main.go 181-196)
RefreshReply(p) ==
    IF call[p].err # "nil"
    THEN [resp |-> <<>>, err |-> TokenError(call[p].err, call[p].text)]
    ELSE [resp |-> <<TokenResponse(call[p].out.access, call[p].out.refresh,
                                   call[p].out.access.exp,
                                   call[p].t0 + svc.refreshTTL, call[p].expected, now)>>,
          err |-> NilErr]

\* what AuthServer.Revoke hands to gRPC (main.go 198-203)
RevokeReply(p) ==
    IF call[p].err # "nil"
    THEN [resp |-> <<[Error |-> "failed to revoke token"]>>,
          err |-> TokenError(call[p].err, call[p].text)]
    ELSE [resp |-> <<[Error |-> "Token revoked"]>>, err |-> NilErr]

\* the status a client reads off an error: AuthError.GRPCStatus
GRPCStatus(e) == [code |-> e.code, message |-> e.msg]

\* the handler returns to its caller
ReturnRPC(p) ==
    /\ call[p].pc = "done"
    /\ call' = [call EXCEPT ![p] = Idle]
    /\ rpc' = [rpc EXCEPT ![p] = IdleRPC]
    /\ UNCHANGED <<svc, now, store, nextRaw, events, issued, users, repo>>

StepRPC(p) ==
    \/ \E c \in Credentials : LoginStart(p, c[1], c[2])
    \/ FindByUsernameStep(p)
    \/ \E d \in Outcomes : LoginQuery(p, d)
    \/ \E g, o \in Outcomes : LoginGenerate(p, g, o)
    \/ \E o \in Outcomes : GenerateTokensExpire(p, o)
    \/ \E r \in Raws, e \in Owners \cup {NoOwner}, o \in Outcomes :
           (r = EmptyRaw => e = NoOwner) /\ RotateStart(p, r, e, o)
    \/ \E o \in Outcomes : RotateHGet(p, o)
    \/ \E g, o \in Outcomes : RotateGenerate(p, g, o)
    \/ \E o \in Outcomes : RotateEval(p, o)
    \/ \E o \in Outcomes : RotateCleanup(p, o)
    \/ \E r \in Raws, o \in Outcomes : RevokeRefreshByRaw(p, r, o)

NextRPC ==
    \/ \E p \in Procs : ReturnRPC(p)
    \/ ~Returning /\ \E p \in Procs : StepRPC(p)

\* the server as its clients drive it
SpecRPC == InitRPC /\ [][NextRPC]_vars

StepRegister(p) ==
    \/ \E c \in Registrations, h, t \in Outcomes : RegisterStart(p, c[1], c[2], h, t)
    \/ CreateStep(p)
    \/ \E d \in Outcomes : RegisterExec(p, d)

NextRegister ==
    \/ \E p \in Procs : ReturnRPC(p)
    \/ ~Returning /\ \E p \in Procs : StepRegister(p)

\* the server under Register requests
SpecRegister == InitRPC /\ [][NextRegister]_vars

----------------------------------------------------------------------------
(* The userRepo called by one goroutine, one call after the other: every    *)
(* call runs its accesses to the builder without another in between.        *)

\* the accesses of FindByUsername from f on, run to the query: [f, sb]
RECURSIVE RunSelect(_, _)
RunSelect(f, sb) ==
    IF f.pc \notin SelectPcs THEN [f |-> f, sb |-> sb]
    ELSE LET st == SelectChain(f, sb)
         IN RunSelect([f EXCEPT !.reg = st.reg, !.pc = st.pc], st.sb)

\* the accesses of Create from f on, run to Exec or to the error of Build:
\* [f, ib]
RECURSIVE RunInsert(_, _)
RunInsert(f, ib) ==
    IF f.pc \notin InsertPcs THEN [f |-> f, ib |-> ib]
    ELSE LET st == InsertChain(f, ib)
         IN RunInsert([f EXCEPT !.reg = st.reg, !.pc = st.pc], st.ib)

\* userRepo.FindByUsername on the SelectBuilder sb: [sb, sql, args, user, err]
FindByUsername(sb, table, username, d) ==
    LET run == RunSelect([IdleRPC EXCEPT !.pc = "sel_w", !.username = username,
                                         !.reg = [NoReg EXCEPT !.cols = sb.columns]], sb)
        found == QueryRowScan(table, run.f.reg.cols, run.f.reg.wh, run.sb.args, d)
    IN [sb |-> run.sb,
        sql |-> SelectText(run.f.reg.cols, run.f.reg.wh, run.sb.args),
        args |-> run.sb.args, user |-> found.user, err |-> found.err]

\* userRepo.Create on the InsertBuilder ib: [ib, sql, args, table, err]
Create(ib, table, user, d) ==
    LET run == RunInsert([IdleRPC EXCEPT !.pc = "col_w", !.user = user,
                                         !.reg = [NoReg EXCEPT !.cols = ib.columns]], ib)
        done == ExecInsert(table, run.f.reg.cols, run.f.reg.frags, run.ib.args, d)
    IN IF run.f.pc = "build_err"
       THEN [ib |-> run.ib, sql |-> <<>>, args |-> <<>>, table |-> table,
             err |-> RawError("insert: values count does not match columns count")]
       ELSE [ib |-> run.ib, sql |-> InsertText(run.f.reg.cols, run.f.reg.frags),
             args |-> run.ib.args, table |-> done.table, err |-> done.err]

\* the users handed to Create
NewUsers ==
    {[id |-> UUID(1), username |-> "carol", password |-> Hash("pw2")],
     [id |-> UUID(2), username |-> "alice", password |-> Hash("pw1")]}

\* a call of FindByUsername and what it returned
RepoFindByUsername(username, d) ==
    /\ username \in {"alice", "carol"}
    /\ d \in ReadOutcomes
    /\ LET r == FindByUsername(repo.SelectBuilder, users, username, d)
       IN /\ repo' = [repo EXCEPT !.SelectBuilder = r.sb]
          /\ rpc' = [rpc EXCEPT ![1] =
                        [IdleRPC EXCEPT !.op = "FindByUsername", !.username = username,
                                        !.sql = r.sql, !.args = r.args,
                                        !.user = r.user, !.err = r.err]]
    /\ Spend(1, d)
    /\ UNCHANGED <<svc, now, store, nextRaw, call, issued, users>>

\* a call of Create and what it returned
RepoCreate(user, d) ==
    /\ user \in NewUsers
    /\ d \in ReadOutcomes
    /\ LET r == Create(repo.InsertBuilder, users, user, d)
       IN /\ repo' = [repo EXCEPT !.InsertBuilder = r.ib]
          /\ users' = r.table
          /\ rpc' = [rpc EXCEPT ![1] =
                        [IdleRPC EXCEPT !.op = "Create", !.username = user.username,
                                        !.sql = r.sql, !.args = r.args,
                                        !.user = user, !.err = r.err]]
    /\ Spend(1, d)
    /\ UNCHANGED <<svc, now, store, nextRaw, call, issued>>

NextRepo ==
    \/ \E u \in {"alice", "carol"}, d \in Outcomes : RepoFindByUsername(u, d)
    \/ \E u \in NewUsers, d \in Outcomes : RepoCreate(u, d)

\* one userRepo under a sequence of calls
SpecRepo == InitRPC /\ [][NextRepo]_vars

----------------------------------------------------------------------------
(* Properties.  A call is observed in the state it returns in (pc "done"):  *)
(* its error and values, what held of its raw secret when it began (tags),  *)
(* the commands it sent (cmds), whether it changed the keyspace (changed)   *)
(* and whether a fault hit one of its commands (faulted).                   *)

Done(p) == call[p].pc = "done"

\* the refresh TTL has elapsed since the record of the issued secret r got it
Expired(r) == now >= issued[r].at + RefreshTTL

\* the secrets returned by successful rotations of raw
Successors(raw) == {r \in DOMAIN issued : issued[r].from = raw}

\* a returned call failed with the zero values, with InvalidToken unless a
\* fault hit one of its commands
Rejected(c) ==
    /\ c.err # "nil"
    /\ ~c.faulted => c.err = "InvalidToken"
    /\ c.out = NoOut

----------------------------------------------------------------------------
\* task p returns from a fault-free RotateRefresh of a secret whose record was
\* there when the call began, with an expected owner that is empty or the
\* record's, and the record was neither revoked nor expired meanwhile, nor
\* consumed by a rotation whose reply was lost
RotateRace(p) ==
    LET c == call[p] IN
    /\ Done(p)
    /\ c.op = "Rotate"
    /\ "present" \in c.tags
    /\ ~c.faulted
    /\ c.raw \in DOMAIN issued
    /\ c.expected \in {NoOwner, issued[c.raw].owner}
    /\ issued[c.raw].fate \notin {"revoked", "orphaned"}
    /\ ~Expired(c.raw)

\* C1: of the RotateRefresh calls racing on one raw secret of a live record,
\* with no backend fault, exactly one succeeds and every other one returns
\* InvalidToken: whenever such a call returns, the old digest has no record,
\* exactly one successor secret has been returned, to this call iff it
\* succeeded; the winner's new record is in the store and a loser's is not.
C1_OneRotationWins ==
    /\ \A raw \in DOMAIN issued : Cardinality(Successors(raw)) <= 1
    /\ \A p \in Procs : RotateRace(p) =>
          LET c == call[p] IN
          /\ c.err \in {"nil", "InvalidToken"}
          /\ KeyOf(c.raw) \notin DOMAIN store
          /\ issued[c.raw].fate = "rotated"
          /\ Cardinality(Successors(c.raw)) = 1
          /\ c.err = "nil" <=> c.newRaw \in Successors(c.raw)
          /\ c.err = "nil" =>
                /\ c.out.refresh = c.newRaw
                /\ KeyOf(c.newRaw) \in DOMAIN store
          /\ c.err # "nil" =>
                /\ c.out = NoOut
                /\ KeyOf(c.newRaw) \notin DOMAIN store
          /\ \A r \in Successors(c.raw) :
                issued[r].fate = "live" /\ ~Expired(r) => KeyOf(r) \in DOMAIN store

\* a call lost the race at the script: it had validated the old secret and
\* written its own new record before the winner's script ran
C1_LoserAtScript ==
    \E p \in Procs :
        /\ RotateRace(p)
        /\ "EVAL" \in call[p].cmds
        /\ call[p].err = "InvalidToken"

----------------------------------------------------------------------------
\* C2: a raw refresh secret is single-use: once a RotateRefresh of it has
\* returned success its record is gone from every later state, and every
\* RotateRefresh and ValidateRefresh begun later fails, with InvalidToken
\* unless a backend fault hit the call.
C2_SingleUse ==
    /\ \A r \in DOMAIN issued : issued[r].fate = "rotated" =>
          /\ KeyOf(r) \notin DOMAIN store
          /\ ValidateRefresh(store, r) = <<"", "InvalidToken">>
    /\ \A p \in Procs :
          (/\ Done(p)
           /\ call[p].op \in {"Rotate", "Validate"}
           /\ "rotated" \in call[p].tags)
          => /\ Rejected(call[p])
             /\ ~call[p].changed

\* a second rotation of a secret already rotated was rejected
C2_ReuseRejected ==
    \E p \in Procs :
        /\ Done(p)
        /\ call[p].op = "Rotate"
        /\ "rotated" \in call[p].tags
        /\ call[p].err = "InvalidToken"

----------------------------------------------------------------------------
\* task p returns from a RotateRefresh whose non-empty expected owner is not
\* the owner the secret was issued to
Mismatched(p) ==
    LET c == call[p] IN
    /\ Done(p)
    /\ c.op = "Rotate"
    /\ c.raw \in DOMAIN issued
    /\ c.expected # NoOwner
    /\ c.expected # issued[c.raw].owner

\* the record of the issued secret r is in the store as it was created
Untouched(r) ==
    /\ KeyOf(r) \in DOMAIN store
    /\ store[KeyOf(r)].user_id = issued[r].owner
    /\ store[KeyOf(r)].issued_at <= issued[r].at
    /\ store[KeyOf(r)].exp = issued[r].at + RefreshTTL

\* C3: RotateRefresh with a non-empty expected owner other than the record's
\* fails (InvalidToken unless a backend fault hit it) and leaves the store as
\* it was: it only reads, writes no new record, and the original record, if
\* nothing else ended it, is still there with its owner, issued_at and TTL.
C3_OwnerMismatch ==
    \A p \in Procs : Mismatched(p) =>
        LET c == call[p] IN
        /\ Rejected(c)
        /\ ~c.changed
        /\ c.cmds \subseteq {"EXISTS", "HGET"}
        /\ c.newRaw = EmptyRaw
        /\ c.access = NoTok
        /\ issued[c.raw].fate = "live" /\ ~Expired(c.raw) => Untouched(c.raw)

\* a mismatching rotation read the record's owner and was rejected, and the
\* record is still there
C3_MismatchRejected ==
    \E p \in Procs :
        /\ Mismatched(p)
        /\ "HGET" \in call[p].cmds
        /\ ~call[p].faulted
        /\ call[p].err = "InvalidToken"
        /\ Untouched(call[p].raw)

----------------------------------------------------------------------------
\* the pair returned with the issued secret r still validates to owner u:
\* the refresh secret while its record is neither expired, rotated nor
\* revoked, the access token until its expiry
RoundTrip(r, u) ==
    /\ issued[r].fate = "live" /\ ~Expired(r)
          => ValidateRefresh(store, r) = <<u, "nil">>
    /\ now < issued[r].access.exp
          => ValidateAccess(issued[r].access, svc.secret, now) = <<u, "nil">>

\* C4: for every owner passed to GenerateTokens, the empty one included, the
\* returned refresh secret validates to that owner until it expires, is
\* rotated or revoked, and the returned access token validates to that owner
\* until it expires.
C4_IssueRoundTrip ==
    \A r \in DOMAIN issued :
        issued[r].from = EmptyRaw => RoundTrip(r, issued[r].owner)

\* C4, for the owners AuthServer.Login passes: the round trip holds for every
\* non-empty owner, and the access token's half of it for every owner
C4_IssueRoundTripNonEmpty ==
    \A r \in DOMAIN issued :
        /\ issued[r].owner # NoOwner => RoundTrip(r, issued[r].owner)
        /\ now < issued[r].access.exp
              => ValidateAccess(issued[r].access, svc.secret, now)
                    = <<issued[r].owner, "nil">>

\* GenerateTokens("") returned a pair whose refresh secret does not validate
\* while its record is in the store
C4_EmptyOwnerIssued ==
    \E r \in DOMAIN issued :
        /\ issued[r].owner = NoOwner
        /\ KeyOf(r) \in DOMAIN store
        /\ ValidateRefresh(store, r) = <<"", "InvalidToken">>

----------------------------------------------------------------------------
\* C5: after a successful RotateRefresh the store holds a record at the
\* digest of the returned secret, with the owner of the old record and the
\* full refresh TTL whatever was left of the old record's; the old digest has
\* no record; ValidateRefresh of the new secret returns that owner.
C5_RotatedRecord ==
    \A p \in Procs :
        (Done(p) /\ call[p].op = "Rotate" /\ call[p].err = "nil") =>
            LET c == call[p]
                new == c.out.refresh
                owner == issued[c.raw].owner
            IN /\ new \notin {EmptyRaw, c.raw}
               /\ c.expected \in {NoOwner, owner}
               /\ KeyOf(new) \in DOMAIN store
               /\ store[KeyOf(new)].user_id = owner
               /\ store[KeyOf(new)].exp = now + RefreshTTL
               /\ KeyOf(c.raw) \notin DOMAIN store
               /\ ValidateRefresh(store, new) = <<owner, "nil">>

\* a rotation with no expected owner succeeded on a record that had used up
\* part of its TTL
C5_RotatedLate ==
    \E p \in Procs :
        /\ Done(p)
        /\ call[p].op = "Rotate"
        /\ call[p].err = "nil"
        /\ call[p].expected = NoOwner
        /\ issued[call[p].raw].at < now

----------------------------------------------------------------------------
\* C6: RevokeRefreshByRaw is idempotent on an issued secret: absent a backend
\* fault it returns nil, the first time and every later time; once its DEL
\* ran the digest has no record, in every later state; a repeated call
\* changes nothing in the store.
C6_RevokeIdempotent ==
    /\ \A r \in DOMAIN issued :
          issued[r].fate = "revoked" => KeyOf(r) \notin DOMAIN store
    /\ \A p \in Procs :
          (Done(p) /\ call[p].op = "Revoke" /\ call[p].raw \in DOMAIN issued) =>
              /\ ~call[p].faulted =>
                    /\ call[p].err = "nil"
                    /\ KeyOf(call[p].raw) \notin DOMAIN store
              /\ "revoked" \in call[p].tags => ~call[p].changed

\* a second revoke of a secret already revoked returned nil
C6_RevokedTwice ==
    \E p \in Procs :
        /\ Done(p)
        /\ call[p].op = "Revoke"
        /\ "revoked" \in call[p].tags
        /\ call[p].err = "nil"

----------------------------------------------------------------------------
\* task p returns from a RevokeRefreshByRaw of a secret whose digest had no
\* record when the call began
RevokedAbsent(p) ==
    /\ Done(p)
    /\ call[p].op = "Revoke"
    /\ "absent" \in call[p].tags

\* C7 as stated: RevokeRefreshByRaw of a secret whose digest has no record
\* (never issued, rotated, revoked or expired) always fails with an error.
C7_RevokeAbsentFails ==
    \A p \in Procs : RevokedAbsent(p) => call[p].err # "nil"

\* C7, amended: RevokeRefreshByRaw of a secret whose digest has no record
\* returns nil and changes nothing; it fails, with ErrStorage, only when the
\* DEL itself hit a backend fault.
C7_RevokeAbsentSucceeds ==
    \A p \in Procs : RevokedAbsent(p) =>
        /\ call[p].err \in {"nil", "ErrStorage"}
        /\ call[p].err = "nil" <=> ~call[p].faulted
        /\ ~call[p].changed
        /\ call[p].cmds = {"DEL"}

\* a revoke of a secret already rotated away returned nil
C7_RevokedAfterRotation ==
    \E p \in Procs :
        /\ RevokedAbsent(p)
        /\ "rotated" \in call[p].tags
        /\ call[p].err = "nil"

----------------------------------------------------------------------------
\* C8: RotateRefresh of a secret whose digest has no record fails on the fast
\* path (InvalidToken unless the EXISTS hit a backend fault): after EXISTS it
\* sends no further command, generates no refresh secret, signs no access
\* token and leaves the store unchanged.
C8_RotateAbsentFastPath ==
    \A p \in Procs :
        (Done(p) /\ call[p].op = "Rotate" /\ "absent" \in call[p].tags) =>
            /\ Rejected(call[p])
            /\ call[p].cmds = {"EXISTS"}
            /\ call[p].newRaw = EmptyRaw
            /\ call[p].access = NoTok
            /\ ~call[p].changed

\* a rotation of a revoked secret was rejected
C8_RotateRevoked ==
    \E p \in Procs :
        /\ Done(p)
        /\ call[p].op = "Rotate"
        /\ "absent" \in call[p].tags
        /\ "revoked" \in call[p].tags
        /\ call[p].err = "InvalidToken"

----------------------------------------------------------------------------
\* C9: a refresh record neither rotated nor revoked is gone from the store
\* once the refresh TTL has elapsed, no DEL having run on it, and until then
\* it validates to its owner; ValidateRefresh and RotateRefresh begun after
\* the TTL elapsed fail as they do after a revocation (InvalidToken unless a
\* backend fault hit the call), and a ValidateRefresh returning while the
\* record is live succeeds.
C9_Expiry ==
    /\ \A r \in DOMAIN issued : issued[r].fate = "live" =>
          IF Expired(r)
          THEN /\ KeyOf(r) \notin DOMAIN store
               /\ ValidateRefresh(store, r) = <<"", "InvalidToken">>
          ELSE /\ Untouched(r)
               /\ ValidateRefresh(store, r) = <<issued[r].owner, "nil">>
    /\ \A p \in Procs :
          LET c == call[p] IN
          (Done(p) /\ c.op \in {"Validate", "Rotate"}) =>
              /\ ("stale" \in c.tags \/ "revoked" \in c.tags) =>
                    /\ "absent" \in c.tags
                    /\ Rejected(c)
              /\ (/\ c.op = "Validate"
                  /\ ~c.faulted
                  /\ c.raw \in DOMAIN issued
                  /\ issued[c.raw].fate = "live"
                  /\ ~Expired(c.raw))
                 => /\ c.err = "nil"
                    /\ c.out.user = issued[c.raw].owner

\* a ValidateRefresh of a secret that only expired was rejected
C9_ExpiredRejected ==
    \E p \in Procs :
        /\ Done(p)
        /\ call[p].op = "Validate"
        /\ "stale" \in call[p].tags
        /\ issued[call[p].raw].fate = "live"
        /\ call[p].err = "InvalidToken"

----------------------------------------------------------------------------
\* C10: NewTokenService given a secret shorter than 32 bytes fails with
\* BadRequest and no service before any PING is sent, so no call ever runs
\* and no record or token ever exists with such a secret; a secret of
\* exactly 32 bytes passes the length test and reaches the PING.
C10_ShortSecretRejected ==
    /\ svc.state # "new" =>
          /\ svc.len < MinSecretLen =>
                /\ svc.state = "failed"
                /\ svc.err = "BadRequest"
                /\ svc.pings = 0
                /\ svc.secret = 0
          /\ svc.len = MinSecretLen =>
                /\ svc.err # "BadRequest"
                /\ svc.pings = 1
    /\ (\/ \E p \in Procs : call[p].op # "idle"
        \/ store # EmptyMap
        \/ issued # EmptyMap)
       => /\ svc.state = "ready"
          /\ svc.secret >= MinSecretLen

\* a secret one byte short was rejected
C10_OneByteShort ==
    /\ svc.state = "failed"
    /\ svc.len = MinSecretLen - 1
    /\ svc.err = "BadRequest"

----------------------------------------------------------------------------
\* C11: in every reachable store state every key is "refresh:th:" followed by
\* the sha256 digest of a raw secret, never the raw secret itself, and every
\* record holds exactly the fields user_id (an owner identifier) and
\* issued_at (a timestamp), beside the key's expiry: no raw secret is stored.
C11_NoRawInStore ==
    \A k \in DOMAIN store :
        /\ k[1] = "refresh:th:"
        /\ k[2][1] = "sha256"
        /\ k[2][2] \in Secrets
        /\ DOMAIN store[k] = {"user_id", "issued_at", "exp"}
        /\ store[k].user_id \in Owners \cup {NoOwner}
        /\ store[k].issued_at \in 0..now

\* the store holds a record written by GenerateTokens and one written again
\* by the rotation script
C11_BothWriters ==
    /\ \E r \in DOMAIN issued :
          issued[r].from = EmptyRaw /\ KeyOf(r) \in DOMAIN store
    /\ \E r \in DOMAIN issued :
          issued[r].from # EmptyRaw /\ KeyOf(r) \in DOMAIN store

----------------------------------------------------------------------------
\* task p returns from a RotateRefresh that no fault hit and that did not
\* succeed
Refused(p) ==
    /\ Done(p)
    /\ call[p].op = "Rotate"
    /\ ~call[p].faulted
    /\ call[p].err # "nil"

\* C12: whatever made a fault-free RotateRefresh fail (no record at the old
\* digest when EXISTS or HGET ran, an owner other than the expected one, or
\* the script answering old_not_found or user_mismatch), the caller gets the
\* same result: InvalidToken and the zero values.
C12_SameRefusal ==
    /\ EvalErr("ok", "user_mismatch") = "InvalidToken"
    /\ \A p \in Procs : Refused(p) =>
          /\ call[p].err = "InvalidToken"
          /\ call[p].out = NoOut

\* a rotation by the record's owner, naming itself as expected owner, was
\* refused by the script
C12_RefusedByScript ==
    \E p \in Procs :
        /\ Refused(p)
        /\ call[p].evals = 1
        /\ call[p].expected # NoOwner
        /\ call[p].expected = call[p].userID

----------------------------------------------------------------------------
\* task p returns from a RotateRefresh with StorageError for its EVAL
EvalFaulted(p) ==
    /\ Done(p)
    /\ call[p].op = "Rotate"
    /\ call[p].evals = 1
    /\ call[p].err = "StorageError"

\* C13: whenever RotateRefresh returns StorageError because the EVAL reported
\* a backend fault, the record at the old digest is still there with its
\* owner, so the old secret still validates (unless another call or the TTL
\* ended it), and after the EVAL the call sent nothing but the cleanup DEL.
C13_OldRecordSurvivesEvalFault ==
    \A p \in Procs : EvalFaulted(p) =>
        LET c == call[p] IN
        /\ c.sent = 6 /\ "DEL" \in c.cmds
        /\ (issued[c.raw].fate \notin {"rotated", "revoked"} /\ ~Expired(c.raw)) =>
              /\ Untouched(c.raw)
              /\ ValidateRefresh(store, c.raw) = <<issued[c.raw].owner, "nil">>

\* C13, for the faults that kept the script from running: the old record is
\* there as long as no script ran on it; after the EVAL the call sent only
\* the cleanup DEL
C13_OldRecordSurvivesUnlessApplied ==
    \A p \in Procs : EvalFaulted(p) =>
        LET c == call[p] IN
        /\ c.sent = 6 /\ "DEL" \in c.cmds
        /\ (issued[c.raw].fate = "live" /\ ~Expired(c.raw)) =>
              /\ Untouched(c.raw)
              /\ ValidateRefresh(store, c.raw) = <<issued[c.raw].owner, "nil">>

\* the script ran but its reply was lost: the call returned StorageError,
\* the script had deleted the old record and the cleanup deleted the new one
C13_BothRecordsGone ==
    \E p \in Procs :
        /\ EvalFaulted(p)
        /\ issued[call[p].raw].fate = "orphaned"
        /\ ~Expired(call[p].raw)
        /\ KeyOf(call[p].raw) \notin DOMAIN store
        /\ KeyOf(call[p].newRaw) \notin DOMAIN store

----------------------------------------------------------------------------
\* C14: in every RotateRefresh the access token is signed only after the
\* script has reported success: a call that holds a signed access token has
\* returned successfully from its EVAL, and a call the script refused has
\* signed none.
C14_SignedAfterRotate ==
    \A p \in Procs :
        (call[p].op = "Rotate" /\ call[p].access # NoTok) =>
            /\ Done(p)
            /\ call[p].evals = 1
            /\ call[p].err = "nil"

\* C14, for what the caller gets: RotateRefresh returns an access token only
\* with a nil error, after its one EVAL reported success, and it is the token
\* GenerateTokens signed for the owner of the rotated record
C14_ReturnedAfterRotate ==
    \A p \in Procs :
        (call[p].op = "Rotate" /\ call[p].out.access # NoTok) =>
            /\ Done(p)
            /\ call[p].evals = 1
            /\ call[p].err = "nil"
            /\ call[p].out.access = call[p].access
            /\ call[p].access.uid = issued[call[p].raw].owner

\* a rotation the script refused with old_not_found had signed an access
\* token for the owner
C14_SignedThenRefused ==
    \E p \in Procs :
        /\ Refused(p)
        /\ call[p].evals = 1
        /\ call[p].access # NoTok
        /\ call[p].access.uid = call[p].userID

----------------------------------------------------------------------------
\* C15: a rotation is never half-applied.  For every RotateRefresh call that
\* has drawn its new secret, in every state up to its return: while no script
\* has consumed the old record, the old record is there and no record exists
\* at the call's new digest; once the call's script has run, the old record
\* is gone and the new one exists; and the call has sent no HSET of its own
\* (the new record is written by the script only).  The old record being
\* revoked or expired by someone else meanwhile is left aside.
C15_NeverHalfApplied ==
    \A p \in Procs :
        LET c == call[p] IN
        (/\ c.op = "Rotate"
         /\ c.newRaw # EmptyRaw
         /\ issued[c.raw].fate # "revoked"
         /\ ~Expired(c.raw))
        => /\ "HSET" \notin c.cmds
           /\ issued[c.raw].fate = "live" =>
                 /\ KeyOf(c.raw) \in DOMAIN store
                 /\ KeyOf(c.newRaw) \notin DOMAIN store
           /\ (c.evals = 1 /\ issued[c.raw].fate = "orphaned") =>
                 /\ KeyOf(c.raw) \notin DOMAIN store
                 /\ KeyOf(c.newRaw) \in DOMAIN store
           /\ c.newRaw \in Successors(c.raw) =>
                 /\ KeyOf(c.raw) \notin DOMAIN store
                 /\ KeyOf(c.newRaw) \in DOMAIN store

\* a RotateRefresh returned an error before it sent its EVAL, leaving the old
\* record untouched and beside it a record at its new digest
C15_FailedWithBothRecords ==
    \E p \in Procs :
        /\ Done(p)
        /\ call[p].op = "Rotate"
        /\ call[p].err = "StorageError"
        /\ call[p].evals = 0
        /\ Untouched(call[p].raw)
        /\ KeyOf(call[p].newRaw) \in DOMAIN store

----------------------------------------------------------------------------
\* C16: no write by GenerateTokens or by the rotation script changes the
\* owner of a record that exists already: the record of every secret handed
\* to a caller keeps, for as long as it is in the store, the owner it was
\* handed out for, also when a later GenerateTokens draws the same secret.
C16_OwnerNeverOverwritten ==
    \A r \in DOMAIN issued :
        KeyOf(r) \in DOMAIN store => store[KeyOf(r)].user_id = issued[r].owner

\* a GenerateTokens for one owner drew the secret of a live record of another
\* owner, and its HSET made the record the new owner's
C16_OwnerOverwritten ==
    \E p \in Procs :
        /\ call[p].op = "Issue"
        /\ call[p].pc = "expire"
        /\ {"collision", "present"} \subseteq call[p].tags
        /\ issued[call[p].newRaw].owner # call[p].userID
        /\ ValidateRefresh(store, call[p].newRaw) = <<call[p].userID, "nil">>

----------------------------------------------------------------------------
\* C17: in every reachable store state every refresh record has an expiry
\* set, no further away than the refresh TTL; no record without a TTL exists.
C17_EveryRecordHasTTL ==
    \A k \in DOMAIN store :
        /\ store[k].exp # NoTTL
        /\ store[k].exp > now
        /\ store[k].exp - now <= RefreshTTL

\* no call is in flight and the store holds a record without a TTL: a
\* GenerateTokens failed between its HSET and its EXPIRE
C17_RecordWithoutTTLLeft ==
    /\ \A p \in Procs : call[p].op = "idle"
    /\ \E k \in DOMAIN store : store[k].exp = NoTTL

----------------------------------------------------------------------------
\* C18: GenerateTokens is all-or-nothing towards its caller: it returns
\* either a nil error with the signed access token and the raw secret whose
\* record it wrote, or an error with the zero values; the error is
\* TokenGeneration when the fault was local (no command sent) and
\* StorageError when HSET or EXPIRE failed.  The same holds of the
\* GenerateTokens inside RotateRefresh.
C18_AllOrNothing ==
    \A p \in Procs :
        LET c == call[p] IN
        /\ (Done(p) /\ c.op = "Issue") =>
              IF c.err = "nil"
              THEN /\ ~c.faulted
                   /\ c.cmds = {"HSET", "EXPIRE"}
                   /\ c.out.access = c.access /\ c.access # NoTok
                   /\ c.out.refresh = c.newRaw /\ c.newRaw # EmptyRaw
              ELSE /\ c.faulted
                   /\ c.out = NoOut
                   /\ c.err = IF c.sent = 0 THEN "TokenGeneration" ELSE "StorageError"
        /\ (Done(p) /\ c.op = "Rotate" /\ c.evals = 0 /\ c.userID # NoOwner
              /\ ~OwnerMismatch(c.expected, c.userID)) =>
              /\ c.faulted
              /\ c.out = NoOut
              /\ c.err = IF c.sent = 2 THEN "TokenGeneration" ELSE "StorageError"

\* a GenerateTokens whose HSET succeeded and whose EXPIRE failed returned
\* StorageError and neither the access token it had signed nor the secret
C18_ExpireFailed ==
    \E p \in Procs :
        /\ Done(p)
        /\ call[p].op = "Issue"
        /\ call[p].cmds = {"HSET", "EXPIRE"}
        /\ call[p].err = "StorageError"
        /\ call[p].access # NoTok
        /\ call[p].out = NoOut

----------------------------------------------------------------------------
\* task p returns from ValidateAccess
Verified(p) == Done(p) /\ call[p].op = "Access"

\* the token is signed with HS256 and the service's secret
SignedByService(tok) == tok.alg = "HS256" /\ tok.key = svc.secret

\* C19 as stated: ValidateAccess returns the owner only for a token signed
\* by the service with HS256, of kind "access" and within its validity
\* window; TokenExpired exactly when the signature and algorithm are valid
\* and the expiry has passed; InvalidToken for a wrong signature, another
\* algorithm or a kind other than "access", also when such a token is expired.
C19_AsClaimed ==
    \A p \in Procs : Verified(p) =>
        LET c == call[p]
            tok == c.access
        IN /\ c.err = "nil" =>
                 /\ SignedByService(tok) /\ tok.typ = "access"
                 /\ tok.nbf <= now /\ now < tok.exp
                 /\ c.out.user = tok.uid
           /\ c.err = "TokenExpired" <=> (SignedByService(tok) /\ now >= tok.exp)
           /\ (~SignedByService(tok) \/ tok.typ # "access") => c.err = "InvalidToken"

\* C19, amended: ValidateAccess returns the owner exactly for a token signed
\* by the service with HS256, of kind "access" and within its validity
\* window; TokenExpired exactly when the signature and algorithm are valid
\* and the expiry has been reached, whatever the kind; InvalidToken in every
\* other case: wrong signature or algorithm (expired or not), and a validly
\* signed unexpired token that is not yet valid or not of kind "access".
C19_Classification ==
    \A p \in Procs : Verified(p) =>
        LET c == call[p]
            tok == c.access
            expired == now >= tok.exp
        IN /\ c.err \in {"nil", "TokenExpired", "InvalidToken"}
           /\ c.err = "nil" <=>
                 /\ SignedByService(tok) /\ tok.typ = "access"
                 /\ tok.nbf <= now /\ ~expired
           /\ c.out.user = IF c.err = "nil" THEN tok.uid ELSE ""
           /\ c.err = "TokenExpired" <=> (SignedByService(tok) /\ expired)
           /\ c.err = "InvalidToken" <=>
                 \/ ~SignedByService(tok)
                 \/ ~expired /\ (now < tok.nbf \/ tok.typ # "access")

\* an expired token signed by the service, of a kind other than "access", got
\* TokenExpired
C19_ExpiredOtherKind ==
    \E p \in Procs :
        /\ Verified(p)
        /\ SignedByService(call[p].access)
        /\ call[p].access.typ # "access"
        /\ now >= call[p].access.exp
        /\ call[p].err = "TokenExpired"

----------------------------------------------------------------------------
\* where a RotateRefresh stands, by the store calls it has made: EXISTS,
\* HGET, HSET, EXPIRE, EVAL and the cleanup DEL, six at most
RotateBounded(c) ==
    /\ c.evals <= 1
    /\ c.sent <= 6
    /\ c.pc = "hget" => c.sent = 1
    /\ c.pc = "gen" => c.sent = 2
    /\ c.pc = "expire" => c.sent = 3
    /\ c.pc = "eval" => c.sent = 4 /\ c.evals = 0
    /\ c.pc = "cleanup" => c.sent = 5 /\ c.evals = 1

\* a step of the RotateRefresh of task p: it returns, or fails locally, or
\* makes exactly one store call and moves on; the EVAL is never followed by
\* another, and an old_not_found reply is kept as InvalidToken to the return
RotateProgress(p) ==
    LET c == call[p]
        d == call'[p]
        argv == RotateArgs(c)
        r == rotateScript(store, redisKey(sha256Hex(c.raw)),
                          redisKey(sha256Hex(c.newRaw)), argv[1], argv[2], argv[3], now)
    IN (c.op = "Rotate" /\ d # c) =>
          /\ \/ c.pc = "done" /\ d = Idle
             \/ c.pc = "gen" /\ d.pc = "done" /\ d.sent = c.sent
                             /\ d.err = "TokenGeneration"
             \/ c.pc # "done" /\ d.op = "Rotate" /\ d.sent = c.sent + 1
          /\ c.pc = "eval" =>
                /\ d.pc \in {"cleanup", "done"}
                /\ d.evals = 1
                /\ (r.err = "old_not_found" /\ d.faulted = c.faulted) =>
                      d.pc = "cleanup" /\ d.err = "InvalidToken"
          /\ c.pc = "cleanup" =>
                d.pc = "done" /\ d.err = c.err /\ d.evals = c.evals

\* C20: a RotateRefresh evaluates the rotation script at most once and never
\* retries: an old_not_found reply ends the call with InvalidToken after the
\* cleanup DEL, every step of the call is one more store call (or a local
\* failure, or the return), and no call makes more than six.
C20_NoRetry ==
    /\ [](\A p \in Procs : call[p].op = "Rotate" => RotateBounded(call[p]))
    /\ [][\A p \in Procs : RotateProgress(p)]_vars

\* a RotateRefresh that found the old record with EXISTS and HGET was told
\* old_not_found by its one EVAL and returned InvalidToken after six store
\* calls
C20_RefusedOnce ==
    \E p \in Procs :
        /\ Refused(p)
        /\ call[p].evals = 1
        /\ call[p].sent = 6
        /\ "present" \in call[p].tags
        /\ call[p].expected = NoOwner
        /\ call[p].err = "InvalidToken"

----------------------------------------------------------------------------
\* C21: once NewTokenService has returned a service, no operation on it
\* changes its secret, its access TTL or its refresh TTL: the fields keep the
\* values given at construction, and of the service and the store only the
\* store is changed by a step of a call.
C21_ServiceImmutable ==
    /\ [](svc.state = "ready" =>
             /\ svc.secret = svc.len /\ svc.secret >= MinSecretLen
             /\ svc.accessTTL = AccessTTL
             /\ svc.refreshTTL = RefreshTTL)
    /\ [][svc.state = "ready" => svc' = svc]_vars

\* the service has issued, rotated and revoked secrets, and a record is in
\* the store
C21_AfterOperations ==
    /\ svc.state = "ready"
    /\ \E r \in DOMAIN issued : issued[r].fate = "rotated"
    /\ \E r \in DOMAIN issued : issued[r].fate = "revoked"
    /\ store # EmptyMap

----------------------------------------------------------------------------
\* the numbers of the placeholders of a text, in order of appearance
Placeholders(text) ==
    LET ph == SelectSeq(text, LAMBDA t : t.s = "$")
    IN [i \in DOMAIN ph |-> ph[i].n]

\* the SET and WHERE fragments of the builder of kind k, in the order Build
\* writes them
Fragments(k) ==
    (IF k = "UpdateBuilder" THEN Join(repo[k].sets, ", ") ELSE <<>>)
    \o Join(repo[k].wheres, " AND ")

\* C28: after any sequence of Where and Set calls on a Select, Update or
\* Delete builder, the placeholders of its SQL are $1, $2, ..., $n in order
\* of appearance, its args list has n elements, and argCount equals
\* len(args).
C28_PlaceholdersNumbered ==
    Calling =>
        \A k \in BuilderKinds \ {"InsertBuilder"} :
            /\ repo[k].argCount = Len(repo[k].args)
            /\ Placeholders(Fragments(k)) = [i \in 1..Len(repo[k].args) |-> i]

\* two Where calls with one '?' each were made on a builder, and its second
\* placeholder is not $2
C28_SecondPlaceholderSkips ==
    \E k \in BuilderKinds \ {"InsertBuilder"} :
        /\ Calling
        /\ Len(repo[k].wheres) = 2
        /\ Len(repo[k].args) = 2
        /\ Placeholders(Fragments(k)) = <<1, 3>>

----------------------------------------------------------------------------
\* the finished call of task p is a Login, Refresh or Revoke RPC
LoginDone(p) == Done(p) /\ rpc[p].op = "Login"
RefreshDone(p) == Done(p) /\ call[p].op = "Rotate"
RevokeDone(p) == Done(p) /\ call[p].op = "Revoke"

\* C24: every successful Refresh response has the fields of a Login
\* response, and its owner id is the owner of the refresh record that was
\* rotated, also when the request's expected_user_id is empty.
C24_RefreshOwner ==
    \A p \in Procs :
        (RefreshDone(p) /\ RefreshReply(p).err = NilErr) =>
            LET resp == RefreshReply(p).resp[1]
            IN /\ DOMAIN resp = DOMAIN TokenResponse(NoTok, EmptyRaw, 0, 0, "", 0)
               /\ resp.UserId = issued[call[p].raw].owner

\* a Refresh with an empty expected_user_id rotated a user's record and
\* answered with an empty owner id
C24_EmptyOwnerReturned ==
    \E p \in Procs :
        /\ RefreshDone(p)
        /\ RefreshReply(p).err = NilErr
        /\ call[p].expected = NoOwner
        /\ issued[call[p].raw].owner = "u1"
        /\ issued[call[p].out.refresh].from = call[p].raw
        /\ RefreshReply(p).resp[1].UserId = ""

----------------------------------------------------------------------------
\* what the client of the finished Login, Refresh or Revoke RPC of task p
\* is handed
ClientReply(p) ==
    IF rpc[p].op = "Login" THEN LoginReply(p)
    ELSE IF call[p].op = "Rotate" THEN RefreshReply(p)
    ELSE RevokeReply(p)

\* C22: the message of every error a Login, Refresh or Revoke RPC returns
\* to its client is one of the fixed classification messages; the text of a
\* backend error never reaches the client.
C22_FixedMessages ==
    \A p \in Procs :
        ((LoginDone(p) \/ RefreshDone(p) \/ RevokeDone(p))
         /\ ClientReply(p).err # NilErr) =>
            GRPCStatus(ClientReply(p).err).message \in FixedMessages

\* a Refresh whose command met a refused connection returned the storage
\* error with the text go-redis gave for it
C22_BackendTextReturned ==
    \E p \in Procs :
        /\ RefreshDone(p)
        /\ call[p].faulted
        /\ RefreshReply(p).err.class = "ErrStorageError"
        /\ GRPCStatus(RefreshReply(p).err).message = RedisErrText("err")

----------------------------------------------------------------------------
\* the GenerateTokens call of the finished Login of task p failed on a
\* generation fault or a backend fault
IssuanceFailed(p) ==
    /\ LoginDone(p)
    /\ rpc[p].err = NilErr
    /\ call[p].err \in {"TokenGeneration", "StorageError"}

\* C23: when token issuance fails during Login on a local generation fault
\* or a backend fault, the error returned to the client is internal, never a
\* client error, and no token is returned.
C23_IssuanceFaultInternal ==
    \A p \in Procs :
        IssuanceFailed(p) =>
            /\ LoginReply(p).err.code \in InternalCodes
            /\ LoginReply(p).err.code \notin ClientCodes
            /\ LoginReply(p).resp = <<>>

\* a Login whose HSET or EXPIRE met a backend fault answered with the bad
\* request error
C23_BadRequestReturned ==
    \E p \in Procs :
        /\ IssuanceFailed(p)
        /\ call[p].faulted
        /\ call[p].err = "StorageError"
        /\ LoginReply(p).err = ErrBadRequest
        /\ LoginReply(p).resp = <<>>

----------------------------------------------------------------------------
\* C25: the Login RPC calls GenerateTokens only after UserService.Login
\* succeeded; a Login whose credential check failed (unknown user, wrong
\* password, user-store fault) sent no command to Redis, created no refresh
\* record and signed no access token.
C25_TokensOnlyAfterLogin ==
    \A p \in Procs :
        /\ (rpc[p].op = "Login" /\ call[p].op = "Issue") =>
               /\ rpc[p].err = NilErr
               /\ rpc[p].user # NoUser
               /\ call[p].userID = rpc[p].user.id
               /\ CompareHashAndPassword(rpc[p].user.password, rpc[p].password)
        /\ (LoginDone(p) /\ rpc[p].err # NilErr) =>
               /\ call[p].cmds = {}
               /\ ~call[p].changed
               /\ call[p].access = NoTok
               /\ call[p].newRaw = EmptyRaw
               /\ LoginReply(p).resp = <<>>

\* a Login with a wrong password ended with ErrLoginUser and the keyspace
\* is empty
C25_WrongPasswordNoTokens ==
    \E p \in Procs :
        /\ LoginDone(p)
        /\ rpc[p].password = "pw2"
        /\ LoginReply(p).err = ErrLoginUser
        /\ call[p].cmds = {}
        /\ store = EmptyMap

----------------------------------------------------------------------------
\* UserService.Login of task p has returned: rpc[p].user and rpc[p].err
\* are its results
LoginReturned(p) == rpc[p].op = "Login" /\ rpc[p].pc \in {"failed", "tokens", "issued"}

\* C27: when the user store has no row for the requested username,
\* UserService.Login returns ErrNotFound and a nil user; every other failure
\* of the user store makes it return ErrStorageError and a nil user.
C27_NoRowIsNotFound ==
    \A p \in Procs :
        LoginReturned(p) =>
            /\ (~\E r \in users : r.username = rpc[p].username) =>
                   (rpc[p].err = ErrNotFound /\ rpc[p].user = NoUser)
            /\ rpc[p].err \notin {NilErr, ErrLoginUser, ErrNotFound} =>
                   (rpc[p].err.class = "ErrStorageError" /\ rpc[p].user = NoUser)

\* the first request the server got was a Login for a username without a
\* row; its well-formed query found no row, and UserService.Login returned
\* the storage error with the text of pgx.ErrNoRows
C27_NoRowIsStorageError ==
    \E p \in Procs :
        /\ LoginReturned(p)
        /\ rpc[p].username = "carol"
        /\ events = 2
        /\ Placeholders(rpc[p].sql) = <<1>>
        /\ rpc[p].args = <<"carol">>
        /\ rpc[p].err = WithMessage(ErrStorageError, "no rows in result set")
        /\ rpc[p].user = NoUser

----------------------------------------------------------------------------
\* C30: UserService.Login returns a non-nil user exactly when it returns a
\* nil error; then the user store has a row for the requested username whose
\* hash matches the supplied password, and the returned user carries the
\* requested username; on a wrong password it returns ErrLoginUser with a
\* nil user.
C30_LoginResult ==
    \A p \in Procs :
        LoginReturned(p) =>
            /\ rpc[p].user # NoUser <=> rpc[p].err = NilErr
            /\ rpc[p].err = NilErr =>
                   /\ rpc[p].user \in users
                   /\ rpc[p].user.username = rpc[p].username
                   /\ CompareHashAndPassword(rpc[p].user.password, rpc[p].password)
            /\ rpc[p].err = ErrLoginUser => rpc[p].user = NoUser
            /\ (\E r \in users : /\ r.username = rpc[p].username
                                 /\ ~CompareHashAndPassword(r.password, rpc[p].password))
                   => rpc[p].err # NilErr

\* two Logins ran at once; the one for a username without a row was handed
\* the other user's row and returned it with a nil error
C30_OtherUserReturned ==
    \E p \in Procs :
        /\ LoginReturned(p)
        /\ rpc[p].username = "carol"
        /\ rpc[p].err = NilErr
        /\ rpc[p].user.username = "alice"
        /\ Placeholders(rpc[p].sql) = <<1>>
        /\ rpc[p].args = <<"alice">>

----------------------------------------------------------------------------
\* UserService.Register of task p has returned: rpc[p].id and rpc[p].err
\* are its results
RegisterReturned(p) == rpc[p].op = "Register" /\ rpc[p].pc = "returned"

----------------------------------------------------------------------------
\* C26: no builder state carries over between the calls of one userRepo:
\* in any sequence of Create and FindByUsername calls, the SQL text and the
\* args of a call are those the call builds on builders of its own (Create:
\* a single-row INSERT with the 3 columns and 3 args; FindByUsername: a
\* SELECT with one WHERE condition and one arg).
C26_NoCarryOver ==
    /\ rpc[1].op = "FindByUsername" =>
           LET own == FindByUsername(NewSelectBuilder, users, rpc[1].username, "ok")
           IN /\ rpc[1].sql = own.sql
              /\ rpc[1].args = own.args
              /\ rpc[1].args = <<rpc[1].username>>
              /\ Placeholders(rpc[1].sql) = <<1>>
    /\ rpc[1].op = "Create" =>
           LET own == Create(NewInsertBuilder, {}, rpc[1].user, "ok")
           IN /\ rpc[1].sql = own.sql
              /\ rpc[1].args = own.args
              /\ rpc[1].args = <<rpc[1].user.id, rpc[1].user.username,
                                 rpc[1].user.password>>
              /\ Placeholders(rpc[1].sql) = <<1, 2, 3>>

\* the second FindByUsername on a userRepo sent a SELECT with two
\* conditions, numbered $1 and $3, and the args of both calls
C26_SecondFindCarries ==
    /\ rpc[1].op = "FindByUsername"
    /\ rpc[1].username = "carol"
    /\ Len(repo.SelectBuilder.wheres) = 2
    /\ Placeholders(rpc[1].sql) = <<1, 3>>
    /\ rpc[1].args = <<"alice", "carol">>
    /\ rpc[1].err # NilErr

----------------------------------------------------------------------------
\* the step of task p is a whole RevokeRefreshByRaw, and it leaves every
\* record but the one at Digest(raw) as it was: none added, none removed,
\* owner, issued_at and expiry kept
RevokeFrame(p) ==
    (call[p].op = "idle" /\ call'[p].op = "Revoke") =>
        /\ (DOMAIN store') \ {KeyOf(call'[p].raw)} = (DOMAIN store) \ {KeyOf(call'[p].raw)}
        /\ \A k \in (DOMAIN store) \ {KeyOf(call'[p].raw)} : store'[k] = store[k]

\* C34: RevokeRefreshByRaw(raw) touches only the record at Digest(raw): every
\* other refresh record in the store, records of the same owner and the
\* successor of an earlier rotation of raw included, keeps its owner, its
\* issued_at and its TTL.
C34_RevokeTouchesOneRecord == [][\A p \in Procs : RevokeFrame(p)]_vars

\* a RevokeRefreshByRaw deleted the record of its secret while another
\* record of the same owner was in the store, and that record is as issued
C34_RevokedBesideSameOwner ==
    \E p \in Procs :
        /\ Done(p)
        /\ call[p].op = "Revoke"
        /\ call[p].changed
        /\ \E r \in (DOMAIN issued) \ {call[p].raw} :
              /\ issued[r].owner = issued[call[p].raw].owner
              /\ Untouched(r)
              /\ store[KeyOf(r)].exp = issued[r].at + RefreshTTL

\* a RevokeRefreshByRaw of a secret already rotated away returned while the
\* record of the successor was in the store, as the rotation wrote it
C34_RevokedBesideSuccessor ==
    \E p \in Procs :
        /\ Done(p)
        /\ call[p].op = "Revoke"
        /\ "rotated" \in call[p].tags
        /\ \E r \in Successors(call[p].raw) : Untouched(r)

----------------------------------------------------------------------------
\* task p returns from a ValidateRefresh none of whose commands hit a fault
Validated(p) ==
    /\ Done(p)
    /\ call[p].op = "Validate"
    /\ ~call[p].faulted

\* C32: ValidateRefresh reads the store in two calls, EXISTS and then HGET
\* user_id.  Whatever another task does to the record between the two
\* (rotation, revocation) and whenever the record expires, a ValidateRefresh
\* that met no backend fault returns either InvalidToken, or the owner the
\* record at that digest was stored for: never StorageError, never an empty
\* owner, never another owner.
C32_ValidateUnderRaces ==
    \A p \in Procs : Validated(p) =>
        \/ call[p].err = "InvalidToken" /\ call[p].out = NoOut
        \/ /\ call[p].err = "nil"
           /\ call[p].raw \in DOMAIN issued
           /\ call[p].out.user = issued[call[p].raw].owner
           /\ call[p].out.user # NoOwner

\* a ValidateRefresh found the record of a non-empty owner with EXISTS, the
\* record was gone when its HGET ran, and it returned InvalidToken
C32_RecordGoneBetweenReads ==
    \E p \in Procs :
        /\ Validated(p)
        /\ "present" \in call[p].tags
        /\ call[p].cmds = {"EXISTS", "HGET"}
        /\ issued[call[p].raw].owner # NoOwner
        /\ call[p].err = "InvalidToken"

\* the same with the record revoked, rotated away or expired in between
C32_RevokedBetweenReads ==
    \E p \in Procs :
        /\ Validated(p) /\ "present" \in call[p].tags /\ "HGET" \in call[p].cmds
        /\ issued[call[p].raw].fate = "revoked"

C32_RotatedBetweenReads ==
    \E p \in Procs :
        /\ Validated(p) /\ "present" \in call[p].tags /\ "HGET" \in call[p].cmds
        /\ issued[call[p].raw].fate \in {"rotated", "orphaned"}

C32_ExpiredBetweenReads ==
    \E p \in Procs :
        /\ Validated(p) /\ "present" \in call[p].tags /\ "HGET" \in call[p].cmds
        /\ issued[call[p].raw].fate = "live"
        /\ issued[call[p].raw].owner # NoOwner
        /\ call[p].err = "InvalidToken"

----------------------------------------------------------------------------
\* no TokenService call is in flight
Quiescent == \A p \in Procs : call[p].op = "idle"

\* the records in the store at the digest of no secret ever returned to a
\* caller
Orphans == (DOMAIN store) \ {KeyOf(r) : r \in DOMAIN issued}

\* C33: whenever no TokenService call is in flight, every refresh record in
\* the store belongs to a secret that a successful GenerateTokens or
\* RotateRefresh returned to its caller: a call that returned an error (a
\* failed issue, a losing or failed rotation, also one whose cleanup DEL
\* failed or whose context was cancelled) leaves no live record behind.
C33_NoOrphanRecords == Quiescent => Orphans = {}

\* every call has returned, none of them handed out the secret of some
\* record, and that record is live in the store with its TTL running
C33_OrphanRecordLeft ==
    /\ Quiescent
    /\ \E k \in Orphans : store[k].exp > now

\* a RotateRefresh whose EVAL failed returns its error after a cleanup DEL
\* that failed too, and the record GenerateTokens wrote for it is still there
C33_RotateLeftItsRecord ==
    \E p \in Procs :
        /\ Done(p)
        /\ call[p].op = "Rotate"
        /\ call[p].err = "StorageError"
        /\ call[p].cmds = {"EXISTS", "HGET", "HSET", "EXPIRE", "EVAL", "DEL"}
        /\ KeyOf(call[p].newRaw) \in Orphans

\* a GenerateTokens whose EXPIRE was cut off returns StorageError and the
\* record its HSET wrote is still there
C33_IssueLeftItsRecord ==
    \E p \in Procs :
        /\ Done(p)
        /\ call[p].op = "Issue"
        /\ call[p].err = "StorageError"
        /\ KeyOf(call[p].newRaw) \in Orphans

----------------------------------------------------------------------------
\* task p has returned from the RotateRefresh and task q from the
\* RevokeRefreshByRaw of the same secret
BothReturned(p, q) ==
    /\ Done(p) /\ call[p].op = "Rotate"
    /\ Done(q) /\ call[q].op = "Revoke"
    /\ call[p].raw = call[q].raw

\* C31: for a RevokeRefreshByRaw(raw) and a RotateRefresh(raw, _) running
\* concurrently on an active record, in any interleaving and with no backend
\* fault: the revoke returns nil; once both have returned the old digest has
\* no record, and either the rotation returned its new pair and the new
\* record exists, or it returned InvalidToken with the zero values and no
\* record exists at its new digest.
C31_RevokeRotateRace ==
    /\ \A q \in Procs : (Done(q) /\ call[q].op = "Revoke") => call[q].err = "nil"
    /\ \A p, q \in Procs : BothReturned(p, q) =>
          /\ KeyOf(call[p].raw) \notin DOMAIN store
          /\ \/ /\ call[p].err = "nil"
                /\ call[p].out.refresh = call[p].newRaw
                /\ call[p].newRaw # EmptyRaw
                /\ ValidateRefresh(store, call[p].newRaw)
                      = <<issued[call[p].raw].owner, "nil">>
                /\ DOMAIN store = {KeyOf(call[p].newRaw)}
             \/ /\ call[p].err = "InvalidToken"
                /\ call[p].out = NoOut
                /\ store = EmptyMap

\* the revoke ran after the rotation had written its new record and before
\* its script: the script answered old_not_found, the rotation deleted its
\* new record and returned InvalidToken
C31_RotateLostAtScript ==
    \E p, q \in Procs :
        /\ BothReturned(p, q)
        /\ call[p].cmds = {"EXISTS", "HGET", "HSET", "EXPIRE", "EVAL", "DEL"}
        /\ call[p].err = "InvalidToken"
        /\ call[q].changed

\* the rotation's script ran while the revoke had not begun; the revoke then
\* found nothing to delete and both returned nil
C31_RotateWon ==
    \E p, q \in Procs :
        /\ BothReturned(p, q)
        /\ call[p].err = "nil"
        /\ "rotated" \in call[q].tags
        /\ call[q].err = "nil"

----------------------------------------------------------------------------
\* the last call was a Build of the InsertBuilder that returned a statement
InsertBuilt ==
    /\ Calling
    /\ rpc[1].op = "Build"
    /\ rpc[1].kind = "InsertBuilder"
    /\ rpc[1].out.err = "nil"

\* m rows times c columns of the InsertBuilder
Cells == Len(repo.InsertBuilder.values) * Len(repo.InsertBuilder.columns)

\* C35: Build is idempotent on every builder: a second Build of the same
\* Select, Insert, Update or Delete builder with no mutator call in between
\* returns the same SQL text and the same argument list as the first; and
\* for an InsertBuilder with m rows of c columns the placeholders are
\* $1..$(m*c) in row order, with exactly m*c args.
C35_BuildIdempotent ==
    /\ (Calling /\ rpc[1].rebuilt) => rpc[1].out = rpc[1].prev
    /\ InsertBuilt =>
          /\ Placeholders(rpc[1].out.sql) = [i \in 1..Cells |-> i]
          /\ Len(rpc[1].out.args) = Cells

\* Build was called twice in a row on the InsertBuilder with one row of two
\* values: the first returned ($1, $2) with two args, the second other
\* placeholders with four args
C35_SecondBuildDiffers ==
    /\ InsertBuilt
    /\ rpc[1].rebuilt
    /\ Placeholders(rpc[1].prev.sql) = <<1, 2>>
    /\ Len(rpc[1].prev.args) = 2
    /\ Placeholders(rpc[1].out.sql) # <<1, 2>>
    /\ Len(rpc[1].out.args) = 4

\* the first Build of an InsertBuilder with two rows of two values numbered
\* the second row otherwise than $3, $4
C35_SecondRowSkips ==
    /\ InsertBuilt
    /\ ~rpc[1].rebuilt
    /\ Len(repo.InsertBuilder.values) = 2
    /\ Len(rpc[1].out.args) = 4
    /\ Placeholders(rpc[1].out.sql) # <<1, 2, 3, 4>>

\* Build called twice in a row on a Select, Update or Delete builder with
\* placeholders returned the same statement and arguments both times
C35_OthersIdempotent ==
    /\ Calling
    /\ rpc[1].rebuilt
    /\ rpc[1].kind # "InsertBuilder"
    /\ rpc[1].out.err = "nil"
    /\ Len(rpc[1].out.args) > 0
    /\ rpc[1].out = rpc[1].prev

----------------------------------------------------------------------------
\* NewPool has returned to main
PoolReturned == rpc[1].pc \notin {"NewPool", "ping", "sleep"}

\* every ping before the last one failed
EarlierPingsFailed ==
    \A k \in 1..(Len(rpc[1].pings) - 1) : rpc[1].pings[k] # "ok"

\* what holds of NewPool and main in every state: at most four pings, the
\* k-th after k-1 sleeps of 1 s, 2 s and 4 s; NewPool returns the open pool
\* and nil at the first ping that succeeds, and after four failed pings the
\* nil pool and the error of the fourth, the pool closed (or, before any
\* ping, the error of the configuration); the server is registered and
\* served only when NewPool returned nil and NewAuthServer made a service
PoolInv ==
    LET f == rpc[1] IN
    /\ Len(f.pings) <= 4
    /\ f.slept = SubSeq(<<1, 2, 4>>, 1, Len(f.slept))
    /\ f.pc = "ping" => Len(f.slept) = Len(f.pings)
    /\ PoolReturned =>
          \/ /\ f.ret = [pool |-> "pool", err |-> "nil"]
             /\ f.pool = "open"
             /\ Len(f.pings) >= 1
             /\ f.pings[Len(f.pings)] = "ok"
             /\ EarlierPingsFailed
             /\ Len(f.slept) = Len(f.pings) - 1
          \/ /\ f.ret.pool = "nil"
             /\ Len(f.pings) = 4
             /\ EarlierPingsFailed
             /\ f.ret.err = f.pings[4]
             /\ f.ret.err # "ok"
             /\ f.pool = "closed"
             /\ f.slept = <<1, 2, 4>>
          \/ /\ f.ret.pool = "nil"
             /\ f.pings = <<>>
             /\ f.ret.err \in {"parse", "config"}
             /\ f.pool = "nil"
    /\ f.server # "none" =>
          /\ f.pc \in {"Serve", "serving"}
          /\ f.ret = [pool |-> "pool", err |-> "nil"]
          /\ svc.state = "ready"

\* C36: NewPool always terminates, after at most four pings (three attempts
\* followed by delays of 1 s, 2 s and 4 s, then one final ping): it returns
\* the pool and a nil error as soon as a ping succeeds, and when all four
\* fail it closes the pool and returns the last ping's error with a nil
\* pool; the gRPC server is registered and served only after NewPool and
\* NewAuthServer have both succeeded.
C36_NewPoolTerminates == []PoolInv /\ <>PoolReturned

\* three pings failed, NewPool slept 1 s, 2 s and 4 s, the fourth ping
\* succeeded, NewAuthServer succeeded and the server is serving
C36_ServingAfterFourthPing ==
    /\ rpc[1].server = "serving"
    /\ Len(rpc[1].pings) = 4
    /\ rpc[1].slept = <<1, 2, 4>>
    /\ rpc[1].ret.err = "nil"

\* all four pings failed: the pool is closed and main has exited
C36_AllFourFailed ==
    /\ rpc[1].pc = "exit"
    /\ Len(rpc[1].pings) = 4
    /\ rpc[1].pool = "closed"
    /\ rpc[1].ret = [pool |-> "nil", err |-> "timeout"]

\* NewPool succeeded and NewAuthServer failed: no server was registered
C36_AuthServerFailed ==
    /\ rpc[1].pc = "exit"
    /\ rpc[1].ret.err = "nil"
    /\ svc.state = "failed"
    /\ rpc[1].server = "none"

====
